---- MODULE Spec2Model ----
(***************************************************************************)
(* A model of the TTD-DR deep-research orchestrator: the research loop of  *)
(* src/src/pipeline.py, the retry wrapper of src/src/gemini_client.py and  *)
(* the streaming bridge of src/src/__init__.py.                            *)
(*                                                                         *)
(* Texts are TLA+ strings: an f-string is a concatenation, a slice is a    *)
(* SubSeq, 'in' is a substring search.    Python's None is the reserved      *)
(* string None, which no provider response equals.  A dict is a record     *)
(* whose DOMAIN is its key set, so a key that is only sometimes set        *)
(* (citations, error) is a field that is only sometimes there.             *)
(***************************************************************************)
EXTENDS Integers, Sequences, FiniteSets, TLC

(***************************************************************************)
(* Bounds of the model (not program constants).                            *)
(***************************************************************************)
\* the largest max_iterations a direct caller of TTD_DR_Pipeline.run passes
MaxIter == 3
\* the sections of one report at whose calls the provider fails or writes a poor text
MaxFaulty == 1
\* the updates the worker thread may be ahead of the event loop by when it takes a step
MaxBacklog == 2
\* the largest max_retries a GeminiClient is constructed with
MaxRetriesArg == 4
\* the most sentences a document given to chunk_document has
MaxSentences == 3
\* the largest max_tokens, overlap and min_tokens chunk_document is called with
MaxTokens == 4

(***************************************************************************)
(* Program constants.                                                      *)
(***************************************************************************)
NUM_VARIANTS == 1
EVOLUTION_STEPS == 1
MAX_SEARCH_ITERATIONS == 1
ENABLE_STRUCTURED_REPORTS == TRUE

None == "<None>"

(***************************************************************************)
(* String helpers: the Python string operations the code uses.             *)
(***************************************************************************)
Ch(s, i) == SubSeq(s, i, i)

IsSpace(c) == c \in {" ", "\n", "\t"}

\* s[:n]
Prefix(s, n) == IF Len(s) <= n THEN s ELSE SubSeq(s, 1, n)

\* s.startswith(p)
StartsWith(s, p) == Len(s) >= Len(p) /\ SubSeq(s, 1, Len(p)) = p

\* p in s
Contains(s, p) ==
    \E i \in 1..(Len(s) - Len(p) + 1) : SubSeq(s, i, i + Len(p) - 1) = p

\* s.find(p), 1-based; 0 when p does not occur in s
Find(s, p) ==
    LET at == {i \in 1..(Len(s) - Len(p) + 1) : SubSeq(s, i, i + Len(p) - 1) = p}
    IN  IF at = {} THEN 0 ELSE CHOOSE i \in at : \A j \in at : i <= j

\* s.strip()
Strip(s) ==
    LET keep == {i \in 1..Len(s) : ~IsSpace(Ch(s, i))}
    IN  IF keep = {} THEN ""
        ELSE LET lo == CHOOSE i \in keep : \A j \in keep : i <= j
                 hi == CHOOSE i \in keep : \A j \in keep : j <= i
             IN  SubSeq(s, lo, hi)

\* len(s.split())
WordCount(s) ==
    Cardinality({i \in 1..Len(s) :
                    ~IsSpace(Ch(s, i)) /\ (i = 1 \/ IsSpace(Ch(s, i - 1)))})

\* s.split(sep): the pieces of s between the occurrences of sep
RECURSIVE Split(_, _)
Split(s, sep) ==
    LET k == Find(s, sep)
    IN  IF k = 0 THEN <<s>>
        ELSE <<SubSeq(s, 1, k - 1)>>
                \o Split(SubSeq(s, k + Len(sep), Len(s)), sep)

\* sep.join(parts)
Join(sep, parts) ==
    LET join[p \in Seq(STRING)] ==
            IF p = <<>> THEN ""
            ELSE IF Len(p) = 1 THEN p[1]
            ELSE join[SubSeq(p, 1, Len(p) \div 2)] \o sep
                     \o join[SubSeq(p, Len(p) \div 2 + 1, Len(p))]
    IN  join[parts]

\* the backtick of the source's messages (the lexer accepts none inside a string)
BT == "'"

\* str(n) for n >= 0
Str(n) == ToString(n)

\* s[a:b] with Python's clipping, 1-based and inclusive
Sub(s, a, b) ==
    LET hi == IF b > Len(s) THEN Len(s) ELSE b
    IN  IF a < 1 \/ a > hi THEN "" ELSE SubSeq(s, a, hi)

\* w * n
RECURSIVE Rep(_, _)
Rep(w, n) ==
    IF n = 0 THEN ""
    ELSE LET h == Rep(w, n \div 2)
         IN  h \o h \o (IF n % 2 = 1 THEN w ELSE "")

Upper == "ABCDEFGHIJKLMNOPQRSTUVWXYZ"
Lowercase == "abcdefghijklmnopqrstuvwxyz"

\* the lower-case letter of each upper-case letter
LowerOf == [c \in {Ch(Upper, k) : k \in 1..26} |-> Ch(Lowercase, Find(Upper, c))]

\* c.lower() of one character
LowerCh(c) == IF c \in DOMAIN LowerOf THEN LowerOf[c] ELSE c

\* s.lower()
RECURSIVE Lower(_)
Lower(s) ==
    IF Len(s) = 0 THEN ""
    ELSE IF Len(s) = 1 THEN LowerCh(s)
    ELSE LET m == Len(s) \div 2
         IN  Lower(SubSeq(s, 1, m)) \o Lower(SubSeq(s, m + 1, Len(s)))

\* the last character of the word of s that holds position i
RECURSIVE WordEnd(_, _)
WordEnd(s, i) ==
    IF i >= Len(s) \/ IsSpace(Ch(s, i + 1)) THEN i ELSE WordEnd(s, i + 1)

\* the positions where a word of s starts
WordStarts(s) ==
    {i \in 1..Len(s) : ~IsSpace(Ch(s, i)) /\ (i = 1 \/ IsSpace(Ch(s, i - 1)))}

\* set(s.split())
Words(s) == {SubSeq(s, a, WordEnd(s, a)) : a \in WordStarts(s)}

\* the words of s that start at the positions lo..hi, in order
RECURSIVE WordsIn(_, _, _)
WordsIn(s, lo, hi) ==
    IF lo > hi THEN <<>>
    ELSE IF lo = hi
         THEN IF ~IsSpace(Ch(s, lo)) /\ (lo = 1 \/ IsSpace(Ch(s, lo - 1)))
              THEN <<SubSeq(s, lo, WordEnd(s, lo))>>
              ELSE <<>>
    ELSE LET m == (lo + hi) \div 2
         IN  WordsIn(s, lo, m) \o WordsIn(s, m + 1, hi)

\* s.split()
SplitWords(s) == WordsIn(s, 1, Len(s))

IsDigit(c) == c # "" /\ Contains("0123456789", c)

\* the last of the digits that start at position j of s; j - 1 when there is none
RECURSIVE DigitsEnd(_, _)
DigitsEnd(s, j) ==
    IF j <= Len(s) /\ IsDigit(Ch(s, j)) THEN DigitsEnd(s, j + 1) ELSE j - 1

\* the first position from j on that holds no white space
RECURSIVE SkipSpaces(_, _)
SkipSpaces(s, j) ==
    IF j <= Len(s) /\ IsSpace(Ch(s, j)) THEN SkipSpaces(s, j + 1) ELSE j

\* a < b for two strings of digits, as Python orders strings
RECURSIVE DigitsLess(_, _)
DigitsLess(a, b) ==
    IF b = "" THEN FALSE
    ELSE IF a = "" THEN TRUE
    ELSE LET x == Find("0123456789", Ch(a, 1))
             y == Find("0123456789", Ch(b, 1))
         IN  IF x # y THEN x < y
             ELSE DigitsLess(Sub(a, 2, Len(a)), Sub(b, 2, Len(b)))

\* sorted(S) for a set of digit strings
RECURSIVE SortedDigits(_)
SortedDigits(S) ==
    IF S = {} THEN <<>>
    ELSE LET m == CHOOSE x \in S : \A y \in S \ {x} : DigitsLess(x, y)
         IN  <<m>> \o SortedDigits(S \ {m})

\* 10 ** d
RECURSIVE Pow10(_)
Pow10(d) == IF d = 0 THEN 1 ELSE 10 * Pow10(d - 1)

\* round(num / den) to the nearest integer, ties to the even one
RoundHalfEven(num, den) ==
    LET q == num \div den
        r == num % den
    IN  IF 2 * r > den \/ (2 * r = den /\ q % 2 = 1) THEN q + 1 ELSE q

\* str(n).zfill(d)
ZFill(n, d) == Rep("0", d - Len(Str(n))) \o Str(n)

\* f"{num / den:.{d}f}" for num >= 0, den > 0
Fixed(num, den, d) ==
    LET scaled == RoundHalfEven(num * Pow10(d), den)
    IN  IF d = 0 THEN Str(scaled)
        ELSE Str(scaled \div Pow10(d)) \o "." \o ZFill(scaled % Pow10(d), d)

\* f"{n:,}" for n >= 0
RECURSIVE Thousands(_)
Thousands(n) ==
    IF n < 1000 THEN Str(n)
    ELSE Thousands(n \div 1000) \o "," \o ZFill(n % 1000, 3)

\* sum of a sequence of integers
RECURSIVE Sum(_)
Sum(xs) == IF xs = <<>> THEN 0 ELSE Head(xs) + Sum(Tail(xs))

\* the elements of xs in order, each one once (dict.fromkeys order)
RECURSIVE Unique(_)
Unique(xs) ==
    IF xs = <<>> THEN <<>>
    ELSE LET init == Unique(SubSeq(xs, 1, Len(xs) - 1))
             last == xs[Len(xs)]
         IN  IF \E k \in 1..Len(init) : init[k] = last THEN init
             ELSE Append(init, last)

\* the concatenation of a sequence of sequences
RECURSIVE Flatten(_)
Flatten(xss) == IF xss = <<>> THEN <<>> ELSE Head(xss) \o Flatten(Tail(xss))

(***************************************************************************)
(* The provider: what a call of the remote model may return or raise.      *)
(* Responses are drawn from small sets, one per call site.                 *)
(***************************************************************************)
\* str(e) of the errors the completion endpoint raises
ProviderErrors == {"400 Bad Request", "429 RESOURCE_EXHAUSTED. Please retry in 2.5s."}

UserQueries == {"What is new in AI?"}
\* the queries of the runs in which the report generation is followed in all
\* its cases
ReportQueries == {"How will batteries develop?"}
VariantTexts == {"plan v1"}
CritiqueResponses ==
    {"CRITIQUE: vague SCORE: 6 REVISED_TEXT: plan v2 ", "I cannot critique this."}
MergeTexts == {"1. scope 2. sources"}
DraftTexts == {"draft zero"}
QueryTexts == {"", "  ", "follow-up"}
RevisionTexts == {"draft revised", "draft revised again"}
FinalTexts == {"", "Final Answer: done."}
\* what retrieve_with_grounded_generation returns: (answer, citations_list)
GroundedResults ==
    { [answer |-> "grounded answer",
       citations |-> <<[url |-> "http://a", title |-> "A"],
                       [url |-> "http://b", title |-> "B"]>>],
      [answer |-> "", citations |-> <<>>] }
\* str(e) of what retrieve_with_grounded_generation raises
GroundedErrors == {"Gemini API Grounded generation failed: 400 Bad Request"}

\* str(e) of what the provider raises at a call that a section generator or
\* the context manager covers with its own handler
SectionErrors == {"503 Service Unavailable"}
ExecTexts == {"Summary of findings. [1]", "An overview without sources."}
ConclusionTexts == {"In conclusion, more work is needed."}
SummaryTexts == {"short summary"}
\* a section text that passes validation: 300 words and more, cited, in sentences
GoodText(id) == "Findings " \o id \o ". [Source 1]\n" \o Rep("a ", 300)
\* a section text of 300 words and more, cited and in sentences, that has the
\* words of the executive summary and no others
RedundantText == "Summary of findings. [1]\n" \o Rep("of ", 300)
\* what the provider may write for the section with the given id
SectionTexts(id) == {GoodText(id), "Too short. [1]", "", RedundantText}
\* what json.loads makes of the structure response of a run: a dict (kind
\* "json") with the keys or without one of them, a JSON array (kind "list"),
\* or the response is no JSON (kind "invalid")
StructureResponses ==
    { [kind |-> "json",
       data |-> [executive_summary |-> [title |-> "Executive Summary", guidance |-> "sum up"],
                 chapters |-> << [title |-> "Market", perspective |-> "Financial",
                                  sections |-> << [title |-> "Size", guidance |-> "numbers"] >>] >>,
                 conclusion |-> [title |-> "Conclusion", guidance |-> "wrap up"]]],
      [kind |-> "json",
       data |-> [executive_summary |-> [title |-> "Executive Summary", guidance |-> "sum up"],
                 chapters |-> <<>>]],
      [kind |-> "list", data |-> <<"Market", "Technology">>],
      [kind |-> "invalid"] }

(***************************************************************************)
(* Report structures (report_structure.py, structure_generator.py).        *)
(***************************************************************************)
\* SectionSpec(...); max_output_tokens keeps its default
SectionSpec(title, chapter_number, section_number, perspective, guidance,
            target_word_count) ==
    [title |-> title, chapter_number |-> chapter_number,
     section_number |-> section_number, perspective |-> perspective,
     guidance |-> guidance, target_word_count |-> target_word_count,
     max_output_tokens |-> 2048]

\* a get_full_id that leaves the section number out
GetChapterId(spec) == Str(spec.chapter_number)

\* SectionSpec.get_full_id
GetFullId(spec) == Str(spec.chapter_number) \o "." \o Str(spec.section_number)

\* Chapter(...)
Chapter(title, perspective, sections, chapter_number) ==
    [title |-> title, perspective |-> perspective, sections |-> sections,
     chapter_number |-> chapter_number]

\* Chapter.total_target_words
TotalTargetWords(ch) ==
    Sum([k \in 1..Len(ch.sections) |-> ch.sections[k].target_word_count])

\* sum(len(ch.sections) for ch in chapters)
MainSections(chapters) == Sum([k \in 1..Len(chapters) |-> Len(chapters[k].sections)])

\* ReportStructure(...) with the estimates both builders compute
ReportStructure(executive_summary, chapters, conclusion) ==
    [executive_summary |-> executive_summary,
     chapters |-> chapters,
     conclusion |-> conclusion,
     estimated_word_count |->
         400 + Sum([k \in 1..Len(chapters) |-> TotalTargetWords(chapters[k])]) + 400,
     estimated_sections |-> 2 + MainSections(chapters)]

\* ReportStructure.total_sections
TotalSections(structure) == 2 + MainSections(structure.chapters)

\* self.report_structure before generate_report_structure ran (Python's None)
NoStructure == [chapters |-> <<>>]

\* the keys _build_report_structure reads without a default
HasKeys(structure_data) ==
    /\ {"executive_summary", "chapters", "conclusion"} \subseteq DOMAIN structure_data
    /\ {"title", "guidance"} \subseteq DOMAIN structure_data.executive_summary
    /\ {"title", "guidance"} \subseteq DOMAIN structure_data.conclusion
    /\ \A c \in 1..Len(structure_data.chapters) :
          LET ch_data == structure_data.chapters[c]
          IN  /\ {"title", "perspective", "sections"} \subseteq DOMAIN ch_data
              /\ \A k \in 1..Len(ch_data.sections) :
                    {"title", "guidance"} \subseteq DOMAIN ch_data.sections[k]

\* StructureGenerator._build_report_structure, for data that has the keys
BuildReportStructure(structure_data) ==
    LET chapters ==
            [c \in 1..Len(structure_data.chapters) |->
                LET ch_data == structure_data.chapters[c]
                IN  Chapter(ch_data.title, ch_data.perspective,
                            [k \in 1..Len(ch_data.sections) |->
                                LET sec_data == ch_data.sections[k]
                                IN  SectionSpec(sec_data.title, c, k, ch_data.perspective,
                                                sec_data.guidance,
                                                IF "target_word_count" \in DOMAIN sec_data
                                                THEN sec_data.target_word_count
                                                ELSE 350)],
                            c)]
    IN  ReportStructure(
            SectionSpec(structure_data.executive_summary.title, 0, 1, "Executive Summary",
                        structure_data.executive_summary.guidance, 400),
            chapters,
            SectionSpec(structure_data.conclusion.title, Len(chapters) + 1, 1, "Conclusion",
                        structure_data.conclusion.guidance, 400))

\* StructureGenerator._generate_default_structure
DefaultStructure ==
    ReportStructure(
        SectionSpec("Executive Summary", 0, 1, "Executive Summary",
                    "Provide high-level synthesis of key findings", 400),
        << Chapter("Background and Context", "General Analysis",
                   << SectionSpec("Overview", 1, 1, "General Analysis",
                                  "Provide context and background", 350),
                      SectionSpec("Key Details", 1, 2, "General Analysis",
                                  "Present essential facts and details", 350) >>, 1),
           Chapter("Analysis and Implications", "Strategic Analysis",
                   << SectionSpec("Primary Analysis", 2, 1, "Strategic Analysis",
                                  "Analyze main implications", 350),
                      SectionSpec("Secondary Considerations", 2, 2, "Strategic Analysis",
                                  "Explore additional factors", 350) >>, 2),
           Chapter("Future Outlook", "Forward-Looking",
                   << SectionSpec("Expected Developments", 3, 1, "Forward-Looking",
                                  "Discuss future trajectories", 350),
                      SectionSpec("Potential Scenarios", 3, 2, "Forward-Looking",
                                  "Consider alternative outcomes", 350) >>, 3) >>,
        SectionSpec("Conclusion", 4, 1, "Conclusion",
                    "Synthesize findings and provide recommendations", 400))

\* generate_chapter_outline after the call returned: the response is what
\* json.loads makes of it, or a marker of why it cannot
ChapterOutline(parsed) ==
    IF parsed.kind = "json" /\ HasKeys(parsed.data)
    THEN BuildReportStructure(parsed.data)
    ELSE DefaultStructure

(***************************************************************************)
(* Sections (section_generator.py, context_manager.py).                    *)
(***************************************************************************)
\* one match of \[(?:Source\s+)?(\d+)\] that starts at the bracket at i:
\* the digits it captures, "" when there is no match there
CitationAt(content, i) ==
    LET j == IF Sub(content, i + 1, i + 6) = "Source" /\ IsSpace(Sub(content, i + 7, i + 7))
             THEN SkipSpaces(content, i + 7)
             ELSE i + 1
        e == DigitsEnd(content, j)
    IN  IF e >= j /\ Sub(content, e + 1, e + 1) = "]" THEN SubSeq(content, j, e) ELSE ""

\* SectionGenerator._extract_citations
ExtractCitations(content) ==
    LET found == {CitationAt(content, i) : i \in {k \in 1..Len(content) : Ch(content, k) = "["}}
        ns == SortedDigits(found \ {""})
    IN  [k \in 1..Len(ns) |-> "Source " \o ns[k]]

\* GeneratedSection(...); the wall-clock generation_time is left at zero
GeneratedSection(spec, content, citations_used) ==
    [spec |-> spec, content |-> content, word_count |-> WordCount(content),
     citations_used |-> citations_used, generation_time |-> 0, summary |-> ""]

\* no section is waiting to be compressed
NoSection == [content |-> None]

\* the section a generator returns when the provider returned content
Generated(spec, content) == GeneratedSection(spec, content, ExtractCitations(content))

\* generate_section: the section of the except clause
SectionFallback(spec, e) ==
    GeneratedSection(spec,
        "# " \o spec.title \o "\n\n"
            \o "[Content generation failed for this section. Error: " \o e \o "]\n\n"
            \o "This section was intended to cover: " \o spec.guidance,
        <<>>)

\* generate_executive_summary: the section of the except clause
ExecutiveSummaryFallback(spec, e) ==
    GeneratedSection(spec,
        "# Executive Summary\n\n[Executive summary generation failed. Error: " \o e \o "]",
        <<>>)

\* generate_conclusion: the section of the except clause
ConclusionFallback(spec, e) ==
    GeneratedSection(spec,
        "# Conclusion\n\n[Conclusion generation failed. Error: " \o e \o "]", <<>>)

\* compress_section_to_summary: the truncation of the except clause
TruncatedSummary(section) ==
    LET words == SplitWords(section.content)
    IN  Join(" ", SubSeq(words, 1, IF Len(words) < 150 THEN Len(words) ELSE 150)) \o "..."

\* compress_section_to_summary: the provider returned summary, or raised
\* (failed); the debug line divides by the word count of the section
CompressSectionToSummary(section, summary, failed) ==
    IF failed \/ section.word_count = 0 THEN TruncatedSummary(section) ELSE summary

(***************************************************************************)
(* Quality validation (quality_validator.py).                              *)
(***************************************************************************)
MIN_WORD_COUNT == 300
\* MIN_CITATION_DENSITY is 1.0 / 150: its denominator
MIN_CITATION_DENSITY_DEN == 150
\* MAX_REDUNDANCY_SIMILARITY is 0.70: in hundredths
MAX_REDUNDANCY_SIMILARITY == 70
\* MIN_COHERENCE_SCORE is 0.8: in tenths
MIN_COHERENCE_SCORE == 8

\* GeneratedSection.citation_density() < MIN_CITATION_DENSITY:
\* (citations / words) * 150 < 1 / 150
CitationDensityLow(section) ==
    \/ section.word_count = 0
    \/ Len(section.citations_used) * 150 * MIN_CITATION_DENSITY_DEN < section.word_count

\* a redundancy check that finds no overlap
NoRedundancy(section, previous_sections) == <<0, 1>>

\* QualityValidator._check_redundancy: the largest Jaccard similarity,
\* as a pair <<intersection, union>>; <<0, 1>> stands for 0.0
CheckRedundancy(section, previous_sections) ==
    LET current_words == Words(Lower(section.content))
        sims == {LET prev_words == Words(Lower(previous_sections[k].content))
                 IN  <<Cardinality(current_words \cap prev_words),
                       Cardinality(current_words \cup prev_words)>> :
                     k \in 1..Len(previous_sections)}
        pos == {p \in sims : p[2] > 0} \cup {<<0, 1>>}
    IN  CHOOSE p \in pos : \A q \in pos : p[1] * q[2] >= q[1] * p[2]

\* a coherence check that finds every section coherent
CoherenceGood(section) == 10

\* QualityValidator._check_coherence, in tenths
CheckCoherence(section) ==
    LET content_lower == Lower(section.content)
        error_indicators == {"generation failed", "error:", "[content generation failed",
                             "not implemented", "placeholder"}
    IN  IF \E indicator \in error_indicators : Contains(content_lower, indicator) THEN 0
        ELSE IF ~(Contains(section.content, "\n")
                  /\ (Contains(section.content, ". ") \/ Contains(section.content, ".\n")))
             THEN 5
             ELSE 10

\* QualityValidator.validate_section
ValidateSection(section, previous_sections, attempt) ==
    LET redundancy_score == IF previous_sections # <<>>
                            THEN CheckRedundancy(section, previous_sections)
                            ELSE <<0, 1>>
        coherence_score == CheckCoherence(section)
        issues ==
            (IF section.word_count < MIN_WORD_COUNT
             THEN <<"Insufficient depth: " \o Str(section.word_count)
                        \o " words (minimum: " \o Str(MIN_WORD_COUNT) \o ")">>
             ELSE <<>>)
            \o (IF CitationDensityLow(section)
                THEN <<"Insufficient citations: " \o Str(Len(section.citations_used))
                           \o " citations for " \o Str(section.word_count)
                           \o " words (target: >=" 
                           \o Fixed(section.word_count, MIN_CITATION_DENSITY_DEN, 1) \o ")">>
                ELSE <<>>)
            \o (IF 100 * redundancy_score[1] > MAX_REDUNDANCY_SIMILARITY * redundancy_score[2]
                THEN <<"High redundancy: "
                           \o Fixed(100 * redundancy_score[1], redundancy_score[2], 0)
                           \o "% similarity with previous sections (threshold: "
                           \o Str(MAX_REDUNDANCY_SIMILARITY) \o "%)">>
                ELSE <<>>)
            \o (IF coherence_score < MIN_COHERENCE_SCORE
                THEN <<"Poor coherence: Section appears to be placeholder or error content">>
                ELSE <<>>)
    IN  [is_valid |-> issues = <<>>,
         section_id |-> GetFullId(section.spec),
         issues |-> issues,
         redundancy_score |-> redundancy_score,
         coherence_score |-> coherence_score]

\* ValidationResult.get_regeneration_guidance
GetRegenerationGuidance(validation_result) ==
    IF validation_result.issues = <<>> THEN ""
    ELSE Join("\n", <<"Address the following issues in regeneration:">>
                        \o [k \in 1..Len(validation_result.issues) |->
                               "- " \o validation_result.issues[k]])

\* a should_regenerate without the test of max_attempts
ShouldRegenerateUnbounded(validation_result, attempt, max_attempts) ==
    IF validation_result.is_valid THEN [regen |-> FALSE, guidance |-> ""]
    ELSE [regen |-> TRUE, guidance |-> GetRegenerationGuidance(validation_result)]

\* QualityValidator.should_regenerate: (should_regenerate, regeneration_guidance)
ShouldRegenerate(validation_result, attempt, max_attempts) ==
    IF attempt >= max_attempts THEN [regen |-> FALSE, guidance |-> ""]
    ELSE IF validation_result.is_valid THEN [regen |-> FALSE, guidance |-> ""]
    ELSE [regen |-> TRUE, guidance |-> GetRegenerationGuidance(validation_result)]

(***************************************************************************)
(* Report assembly (report_assembler.py).                                  *)
(***************************************************************************)
\* section_map.get(id): the last section generated under the id, as a list
\* of at most one section
SectionMapGet(sections, id) ==
    LET at == {k \in 1..Len(sections) : GetFullId(sections[k].spec) = id}
    IN  IF at = {} THEN <<>>
        ELSE <<sections[CHOOSE k \in at : \A j \in at : j <= k]>>

\* a citations section that never lists a citation
OrganizeNoCitations(structure, sections) ==
    "\n# Citations\n\nNo citations available for this report.\n"

\* ReportAssembler.organize_citations_by_chapter
OrganizeCitationsByChapter(structure, sections) ==
    LET all_citations == Flatten([k \in 1..Len(sections) |-> sections[k].citations_used])
        of_chapter(n) ==
            Unique(Flatten([k \in 1..Len(sections) |->
                               IF sections[k].spec.chapter_number = n
                               THEN sections[k].citations_used ELSE <<>>]))
        heading(n) ==
            IF n = 0 THEN "\n## Executive Summary\n"
            ELSE IF n = Len(structure.chapters) + 1 THEN "\n## Conclusion\n"
            ELSE "\n## Chapter " \o Str(n) \o ": " \o structure.chapters[n].title \o "\n"
        part(n) ==
            IF of_chapter(n) = <<>> THEN ""
            ELSE heading(n)
                    \o Join("", [k \in 1..Len(of_chapter(n)) |->
                                    "- [" \o of_chapter(n)[k] \o "]\n"])
    IN  IF all_citations = <<>>
        THEN "\n# Citations\n\nNo citations available for this report.\n"
        ELSE "\n# Citations\n"
                \o Join("", [n \in 1..(Len(structure.chapters) + 2) |-> part(n - 1)])
                \o "\n"

\* ReportAssembler.generate_metadata
GenerateMetadata(structure, sections) ==
    LET total_words == Sum([k \in 1..Len(sections) |-> sections[k].word_count])
        total_sections == Len(sections)
        total_citations == Sum([k \in 1..Len(sections) |-> Len(sections[k].citations_used)])
        total_time == Sum([k \in 1..Len(sections) |-> sections[k].generation_time])
    IN  "\n\n---\n\n## Report Metadata\n\n**Generated Report Statistics:**\n"
            \o "- **Total Word Count:** " \o Thousands(total_words) \o " words\n"
            \o "- **Total Sections:** " \o Str(total_sections) \o " sections ("
            \o Str(Len(structure.chapters)) \o " chapters)\n"
            \o "- **Total Citations:** " \o Str(total_citations) \o " sources\n"
            \o "- **Average Section Length:** "
            \o (IF total_sections > 0 THEN Fixed(total_words, total_sections, 0) ELSE "0")
            \o " words\n"
            \o "- **Citation Density:** "
            \o (IF total_words > 0 THEN Fixed(total_citations * 150, total_words, 2) ELSE "0.00")
            \o " citations per 150 words\n"
            \o "- **Total Generation Time:** " \o Fixed(total_time, 1, 1) \o " seconds ("
            \o Fixed(total_time, 60, 1) \o " minutes)\n\n"
            \o "**Report Structure:**\n- Executive Summary: 1 section\n"
            \o "- Main Chapters: " \o Str(Len(structure.chapters)) \o " chapters\n"
            \o "- Conclusion: 1 section\n\n"
            \o "*Generated by TTD-DR Structured Report Generation System*\n"

\* ReportAssembler.assemble_final_report
AssembleFinalReport(structure, sections) ==
    LET exec_section == SectionMapGet(sections, "0.1")
        concl_section == SectionMapGet(sections, GetFullId(structure.conclusion))
        of_section(section_spec) ==
            LET section == SectionMapGet(sections, GetFullId(section_spec))
            IN  IF section = <<>> THEN ""
                ELSE "\n## " \o GetFullId(section[1].spec) \o " " \o section[1].spec.title
                        \o "\n" \o section[1].content \o "\n"
        of_chapter(chapter) ==
            "\n# Chapter " \o Str(chapter.chapter_number) \o ": " \o chapter.title \o "\n"
                \o "*Perspective: " \o chapter.perspective \o "*\n"
                \o Join("", [k \in 1..Len(chapter.sections) |-> of_section(chapter.sections[k])])
                \o "\n---\n"
    IN  (IF exec_section = <<>> THEN ""
         ELSE "# Executive Summary\n" \o exec_section[1].content \o "\n\n---\n")
        \o Join("", [c \in 1..Len(structure.chapters) |-> of_chapter(structure.chapters[c])])
        \o (IF concl_section = <<>> THEN ""
            ELSE "\n# Conclusion\n" \o concl_section[1].content \o "\n\n---\n")
        \o OrganizeCitationsByChapter(structure, sections)
        \o GenerateMetadata(structure, sections)

(***************************************************************************)
(* The retry wrapper (gemini_client.py).  Durations are in milliseconds.   *)
(***************************************************************************)
\* GeminiClient.__init__: the default of max_retries
DEFAULT_MAX_RETRIES == 3
\* GeminiClient.__init__: the default of retry_delays
RetryDelays == <<1000, 2000, 4000>>
\* _retry_with_backoff: RATE_LIMIT_BUFFER
RATE_LIMIT_BUFFER == 5000
\* _retry_with_backoff: the 60.0 of the default rate-limit delay
DEFAULT_RATE_LIMIT_DELAY == 60000

\* str(e) of what the wrapped call raises
ApiErrors ==
    {"429 RESOURCE_EXHAUSTED. Please retry in 2.5s.",
     "429 Too Many Requests",
     "RESOURCE_EXHAUSTED: quota. Please Retry In 0s.",
     "503 Service Unavailable",
     "Request timeout",
     "429 Request timeout. Please retry in 1s.",
     "400 Bad Request"}
\* what the wrapped call returns
ApiResults == {"ok"}
\* the operation names of the three wrapped calls
OperationNames == {"LLM completion", "Grounded generation", "Search"}

\* int(s) for a string of digits
RECURSIVE ToInt(_)
ToInt(s) ==
    IF s = "" THEN 0
    ELSE 10 * ToInt(SubSeq(s, 1, Len(s) - 1)) + (Find("0123456789", Ch(s, Len(s))) - 1)

\* the match of (\d+(?:\.\d+)?)\s*s at position j of s: the number in
\* milliseconds (of its first three decimals), -1 when there is no match
RetryNumberAt(s, j) ==
    LET e == DigitsEnd(s, j)
        f == IF Sub(s, e + 1, e + 1) = "." THEN DigitsEnd(s, e + 2) ELSE e
        \* the end of the number: with its fraction when the fraction has digits
        n == IF f >= e + 2 THEN f ELSE e
        after == SkipSpaces(s, n + 1)
        frac == IF n > e THEN Sub(SubSeq(s, e + 2, n) \o "000", 1, 3) ELSE "000"
    IN  IF e >= j /\ Sub(s, after, after) = "s"
        THEN 1000 * ToInt(SubSeq(s, j, e)) + ToInt(frac)
        ELSE -1

\* GeminiClient._parse_retry_after: milliseconds, -1 for None
ParseRetryAfter(error_str) ==
    LET low == Lower(error_str)
        at == {i \in 1..Len(low) :
                  /\ Sub(low, i, i + 8) = "retry in "
                  /\ RetryNumberAt(low, i + 9) >= 0}
    IN  IF at = {} THEN -1
        ELSE RetryNumberAt(low, (CHOOSE i \in at : \A j \in at : i <= j) + 9)

\* _retry_with_backoff: is_rate_limit
IsRateLimit(error_str) ==
    Contains(error_str, "429") \/ Contains(error_str, "RESOURCE_EXHAUSTED")

\* _retry_with_backoff: is_transient
IsTransient(error_str) ==
    \E keyword \in {"timeout", "503", "502"} : Contains(error_str, keyword)

\* an is_retryable that holds of every error
RetryAll(error_str) == TRUE

\* _retry_with_backoff: is_retryable
IsRetryable(error_str) == IsRateLimit(error_str) \/ IsTransient(error_str)

\* a delay that is the first entry of the schedule at every attempt
RetryDelayFlat(error_str, at, retry_delays) == retry_delays[1]

\* _retry_with_backoff: delay, for a retryable error at the 0-based attempt
RetryDelay(error_str, at, retry_delays) ==
    IF IsRateLimit(error_str)
    THEN LET retry_after == ParseRetryAfter(error_str)
         IN  IF retry_after # -1 /\ retry_after # 0
             THEN retry_after + RATE_LIMIT_BUFFER
             ELSE DEFAULT_RATE_LIMIT_DELAY + RATE_LIMIT_BUFFER
    ELSE IF at < Len(retry_delays) THEN retry_delays[at + 1]
         ELSE retry_delays[Len(retry_delays)]

\* _retry_with_backoff: str() of the RuntimeError raised inside the loop
RetryError(operation, error_str, attempts, retries) ==
    IF IsRateLimit(error_str)
    THEN "Gemini API rate limit exceeded for " \o operation \o "\n"
            \o "Error: " \o error_str \o "\n"
            \o "Attempts: " \o Str(attempts) \o "/" \o Str(retries) \o "\n"
            \o "Pipeline exiting. Please:\n"
            \o "1. Check quota usage: https://ai.dev/usage?tab=rate-limit\n"
            \o "2. Upgrade plan if needed: https://ai.google.dev/pricing\n"
            \o "3. Reduce request frequency or batch operations\n"
            \o "4. Wait for quota reset (free tier: 250 requests/day)"
    ELSE "Gemini API " \o operation \o " failed: " \o error_str \o "\n"
            \o "Attempts: " \o Str(attempts) \o "/" \o Str(retries) \o "\n"
            \o "Pipeline exiting. Please check:\n"
            \o "1. API key is valid\n"
            \o "2. Network connectivity\n"
            \o "3. Gemini API status: https://status.cloud.google.com/"

VARIABLES
    mode,               \* "stream" (POST /run), "static" (POST /evaluate), "direct" (a script drives the pipeline)
    query,              \* the user's query
    enable_structured,  \* TTD_DR_Pipeline.enable_structured
    max_iterations,     \* the max_iterations argument of run
    pc,                 \* where the pipeline worker is
    plan,               \* TTD_DR_Pipeline.plan
    draft,              \* TTD_DR_Pipeline.draft
    q_a_history,        \* TTD_DR_Pipeline.q_a_history
    intermediate_log,   \* TTD_DR_Pipeline.intermediate_log
    citations,          \* TTD_DR_Pipeline.citations
    variants,           \* self_evolve: variants
    evolved_variants,   \* self_evolve: evolved_variants
    evolution_step,     \* self_evolve: i
    iteration,          \* perform_iterative_search_and_synthesis: i
    search_query,       \* perform_iterative_search_and_synthesis: search_query
    synthesized_answer, \* perform_iterative_search_and_synthesis: synthesized_answer
    emitted,            \* every dict the pipeline passed to its callback, in order
    provider_calls,     \* the provider calls made so far, by call site
    exc,                \* str(exc) of the exception that ended the run, None while there is none
    ready,              \* run_endpoint: the callbacks call_soon_threadsafe scheduled, not yet run
    queue,              \* run_endpoint: the asyncio.Queue
    delivered,          \* run_endpoint: the updates event_publisher yielded to the client
    publisher,          \* run_endpoint: where event_publisher is
    cancelled_at,       \* how many provider calls and events there were when pipeline_task.cancel() ran, <<>> before
    final_report,       \* run_rag_static: final_report
    response,           \* evaluate_endpoint: the HTTP response, None while there is none
    report_structure,   \* TTD_DR_Pipeline.report_structure
    generated_sections, \* TTD_DR_Pipeline.generated_sections
    chapter_number,     \* generate_structured_report: the chapter the loop is at
    section_number,     \* generate_structured_report: the section of the chapter the loop is at
    current_section,    \* generate_structured_report: current_section
    attempt,            \* _generate_section_with_validation: attempt
    regeneration_guidance, \* _generate_section_with_validation: regeneration_guidance
    prompt_guidance,    \* generate_section: the guidance its last prompt was formatted with
    previous_sections_text, \* build_generation_context: previous_sections_text of the last context built
    section,            \* generate_structured_report: section, before it is compressed
    faulty,             \* the ids of the sections at whose calls the provider misbehaved
    max_retries,        \* GeminiClient.max_retries
    operation_name,     \* _retry_with_backoff: operation_name
    retry_attempt,      \* _retry_with_backoff: attempt
    retry_pc,           \* _retry_with_backoff: "idle", "call", "returned" or "raised"
    invocations,        \* _retry_with_backoff: how often func() was called
    sleeps,             \* _retry_with_backoff: the delays time.sleep was called with
    last_exception,     \* _retry_with_backoff: str(last_exception), None while there is none
    retry_result,       \* _retry_with_backoff: what it returned or the message it raised
    sentences,          \* chunk_document: sentences
    max_tokens,         \* chunk_document: max_tokens
    overlap,            \* chunk_document: overlap
    min_tokens,         \* chunk_document: min_tokens
    chunks,             \* chunk_document: chunks
    current_chunk,      \* chunk_document: current_chunk
    current_tokens,     \* chunk_document: current_tokens
    char_pos,           \* chunk_document: char_pos
    sent_index,         \* chunk_document: the sentence the for loop is at
    chunk_pc,           \* chunk_document: "idle", "loop" or "returned"
    retrieve_result,    \* retrieve, retrieve_with_grounded_generation: how the call ended, kind "pending" before
    top_k,              \* retrieve: top_k
    reranked_chunks,    \* retrieve: reranked_chunks, <<>> before rerank_chunks returned
    reordered           \* retrieve: reordered

planVars == <<variants, evolved_variants, evolution_step>>
loopVars == <<iteration, search_query, synthesized_answer>>
stateVars == <<plan, draft, q_a_history, citations>>
cfgVars == <<mode, query, enable_structured, max_iterations>>
streamVars == <<queue, delivered, publisher, cancelled_at>>
reportVars == <<report_structure, generated_sections, chapter_number, section_number,
                current_section, attempt, regeneration_guidance, prompt_guidance, previous_sections_text,
                section, faulty>>
retryVars == <<max_retries, operation_name, retry_attempt, retry_pc, invocations,
               sleeps, last_exception, retry_result>>
rerankVars == <<top_k, reranked_chunks, reordered>>
chunkVars == <<sentences, max_tokens, overlap, min_tokens, chunks, current_chunk,
               current_tokens, char_pos, sent_index, chunk_pc, retrieve_result, rerankVars>>

vars == <<mode, query, enable_structured, max_iterations, pc, plan, draft,
          q_a_history, intermediate_log, citations, variants, evolved_variants,
          evolution_step, iteration, search_query, synthesized_answer, emitted,
          provider_calls, exc, ready, queue, delivered, publisher, cancelled_at,
          final_report, response, report_structure, generated_sections, chapter_number,
          section_number, current_section, attempt, regeneration_guidance,
          prompt_guidance, previous_sections_text, section, faulty,
          max_retries, operation_name, retry_attempt, retry_pc, invocations,
          sleeps, last_exception, retry_result, sentences, max_tokens, overlap,
          min_tokens, chunks, current_chunk, current_tokens, char_pos, sent_index,
          chunk_pc, retrieve_result, top_k, reranked_chunks, reordered>>

(***************************************************************************)
(* _send_update and the three callbacks.                                   *)
(***************************************************************************)
\* a _send_update that puts the description at the head of the log
SendUpdatePrepend(s, step_description, is_intermediate, final_report_chunk, cits, complete) ==
    LET log == IF step_description # None /\ step_description # ""
               THEN <<step_description>> \o s.log
               ELSE s.log
        steps_text == Join("|||---|||", log)
        data == [intermediate_steps |-> IF steps_text # "" THEN steps_text ELSE None,
                 final_report |-> final_report_chunk,
                 is_intermediate |-> is_intermediate,
                 complete |-> complete]
    IN  [log |-> log,
         out |-> Append(s.out, IF cits # <<>> THEN [citations |-> cits] @@ data
                               ELSE data)]

\* TTD_DR_Pipeline._send_update on the log and the updates sent so far in this step
SendUpdate(s, step_description, is_intermediate, final_report_chunk, cits, complete) ==
    LET log == IF step_description # None /\ step_description # ""
               THEN Append(s.log, step_description)
               ELSE s.log
        steps_text == Join("|||---|||", log)
        data == [intermediate_steps |-> IF steps_text # "" THEN steps_text ELSE None,
                 final_report |-> final_report_chunk,
                 is_intermediate |-> is_intermediate,
                 complete |-> complete]
    IN  [log |-> log,
         out |-> Append(s.out, IF cits # <<>> THEN [citations |-> cits] @@ data
                               ELSE data)]

\* _send_update(step_description) if complete defaulted to True
NoteComplete(s, step_description) == SendUpdate(s, step_description, TRUE, None, <<>>, TRUE)

\* _send_update(step_description) with the defaults of the other arguments
Note(s, step_description) == SendUpdate(s, step_description, TRUE, None, <<>>, FALSE)

\* the log as the step finds it, nothing sent yet
Here == [log |-> intermediate_log, out |-> <<>>]

\* a static_callback that never takes the report of an update
StaticCallbackKeeps(report, datas) == report

\* run_rag_static.static_callback over the updates of one step
RECURSIVE StaticCallback(_, _)
StaticCallback(report, datas) ==
    IF datas = <<>> THEN report
    ELSE StaticCallback(IF Head(datas).complete THEN Head(datas).final_report
                        ELSE report,
                        Tail(datas))

\* a pipeline_callback that schedules nothing
DropCallback(scheduled, datas) == scheduled

\* run_endpoint.pipeline_callback: loop.call_soon_threadsafe(queue.put_nowait, update)
PipelineCallback(scheduled, datas) == scheduled \o datas

\* self.callback(data) for the updates of one step, by the callback the mode installs
Deliver(s) ==
    /\ intermediate_log' = s.log
    /\ emitted' = emitted \o s.out
    /\ ready' = IF mode = "stream" THEN PipelineCallback(ready, s.out) ELSE ready
    /\ final_report' = IF mode = "static" THEN StaticCallback(final_report, s.out)
                       ELSE final_report

\* the worker thread is scheduled: it is at most MaxBacklog updates ahead
WorkerRuns == Len(ready) + Len(queue) <= MaxBacklog

\* a provider call at the current position that returned
Called == provider_calls' = Append(provider_calls, pc)

(***************************************************************************)
(* Init: a request arrives.                                                *)
(***************************************************************************)
InitPipeline ==
    /\ mode \in {"stream", "static", "direct"}
    /\ query \in UserQueries \cup ReportQueries
    /\ enable_structured \in BOOLEAN
    /\ max_iterations \in 0..MaxIter
    \* direct calls with more iterations than the default end in the legacy report
    /\ enable_structured => max_iterations <= MAX_SEARCH_ITERATIONS
    \* run_rag_dynamic and run_rag_static construct the pipeline with the defaults
    /\ mode # "direct" =>
          enable_structured = ENABLE_STRUCTURED_REPORTS
          /\ max_iterations = MAX_SEARCH_ITERATIONS
    /\ query \in ReportQueries =>
          mode = "direct" /\ enable_structured /\ max_iterations = 0
    /\ pc = "start"
    /\ plan = ""
    /\ draft = ""
    /\ q_a_history = <<>>
    /\ intermediate_log = <<>>
    /\ citations = <<>>
    /\ variants = <<>>
    /\ evolved_variants = <<>>
    /\ evolution_step = 0
    /\ iteration = 0
    /\ search_query = None
    /\ synthesized_answer = None
    /\ emitted = <<>>
    /\ provider_calls = <<>>
    /\ exc = None
    /\ ready = <<>>
    /\ queue = <<>>
    /\ delivered = <<>>
    /\ publisher = IF mode = "stream" THEN "get" ELSE "off"
    /\ cancelled_at = <<>>
    /\ final_report = ""
    /\ response = None
    /\ report_structure = NoStructure
    /\ generated_sections = <<>>
    /\ chapter_number = 0
    /\ section_number = 0
    /\ current_section = 0
    /\ attempt = 0
    /\ regeneration_guidance = ""
    /\ prompt_guidance = None
    /\ previous_sections_text = <<>>
    /\ section = NoSection
    /\ faulty = {}

\* retrieve: the default of top_k
DEFAULT_TOP_K == 5

\* no call of retrieve got to its reranking
RerankIdle ==
    /\ top_k = DEFAULT_TOP_K
    /\ reranked_chunks = <<>>
    /\ reordered = <<>>

\* no call of chunk_document is followed
ChunkerIdle ==
    /\ sentences = <<>>
    /\ max_tokens = 500
    /\ overlap = 50
    /\ min_tokens = 500
    /\ chunks = <<>>
    /\ current_chunk = <<>>
    /\ current_tokens = 0
    /\ char_pos = 0
    /\ sent_index = 1
    /\ chunk_pc = "idle"
    /\ retrieve_result = [kind |-> "pending"]
    /\ RerankIdle

\* a request arrives; no call of the retry wrapper is followed
Init ==
    /\ InitPipeline
    /\ query \in UserQueries
    /\ ChunkerIdle
    /\ max_retries = DEFAULT_MAX_RETRIES
    /\ operation_name = "Grounded generation"
    /\ retry_attempt = 0
    /\ retry_pc = "idle"
    /\ invocations = 0
    /\ sleeps = <<>>
    /\ last_exception = None
    /\ retry_result = None

(***************************************************************************)
(* How a run ends in an exception.                                         *)
(***************************************************************************)
\* an error_payload without complete set
ErrorPayloadOpen(e) == [error |-> e, complete |-> FALSE]

\* run_endpoint.run_pipeline: error_payload
ErrorPayload(e) == [error |-> e, complete |-> TRUE]

\* an exception with str(exc) = e leaves TTD_DR_Pipeline.run and run_pipeline
\* has no except clause
RaiseSilently(e) ==
    /\ exc' = e
    /\ pc' = "raised"
    /\ UNCHANGED <<ready, intermediate_log, emitted, final_report>>

\* an exception with str(exc) = e leaves TTD_DR_Pipeline.run; in streaming
\* mode run_pipeline's except clause schedules the error payload
Raise(e) ==
    /\ exc' = e
    /\ pc' = "raised"
    /\ ready' = IF mode = "stream" THEN Append(ready, ErrorPayload(e)) ELSE ready
    /\ UNCHANGED <<intermediate_log, emitted, final_report>>

\* the positions whose provider call is made outside any try block
Propagating ==
    {"plan_variant", "plan_critique", "plan_merge", "draft", "query_gen",
     "revise", "legacy_final", "structure"}

\* get_llm_response raises at a call no handler of the pipeline covers
ProviderFailure ==
    /\ pc \in Propagating
    /\ WorkerRuns
    /\ \E e \in ProviderErrors : Raise(e)
    /\ Called
    /\ UNCHANGED <<chunkVars, retryVars, cfgVars, reportVars, planVars, loopVars, stateVars, streamVars, response>>

(***************************************************************************)
(* Plan and initial draft.                                                 *)
(***************************************************************************)
\* generate_research_plan without its first _send_update
GenerateResearchPlanSilent ==
    /\ pc = "start"
    /\ WorkerRuns
    /\ pc' = IF NUM_VARIANTS > 0 THEN "plan_variant"
             ELSE IF EVOLUTION_STEPS > 0 THEN "plan_critique" ELSE "plan_merge"
    /\ UNCHANGED <<chunkVars, retryVars, cfgVars, reportVars, planVars, loopVars, stateVars, streamVars, response,
                   provider_calls, exc, intermediate_log, emitted, ready, final_report>>

\* generate_research_plan, up to the first call of self_evolve
GenerateResearchPlan ==
    /\ pc = "start"
    /\ WorkerRuns
    /\ Deliver(Note(Here, "Generating initial research plan..."))
    /\ pc' = IF NUM_VARIANTS > 0 THEN "plan_variant"
             ELSE IF EVOLUTION_STEPS > 0 THEN "plan_critique" ELSE "plan_merge"
    /\ UNCHANGED <<chunkVars, retryVars, cfgVars, reportVars, planVars, loopVars, stateVars, streamVars, response,
                   provider_calls, exc>>

\* where self_evolve goes once round i of the evolution loop has its variants
AfterRound(i, vs) ==
    IF i < EVOLUTION_STEPS /\ vs # <<>> THEN "plan_critique" ELSE "plan_merge"

\* self_evolve: one get_llm_response of the initial variants
SelfEvolveVariant ==
    /\ pc = "plan_variant"
    /\ WorkerRuns
    /\ \E t \in VariantTexts :
          /\ variants' = Append(variants, t)
          /\ pc' = IF Len(variants) + 1 < NUM_VARIANTS THEN "plan_variant"
                   ELSE AfterRound(0, Append(variants, t))
    /\ Called
    /\ UNCHANGED <<chunkVars, retryVars, cfgVars, reportVars, evolved_variants, evolution_step, loopVars, stateVars,
                   streamVars, response, exc, intermediate_log, emitted, ready,
                   final_report>>

\* self_evolve: one critique; feedback_response.split("REVISED_TEXT:")[1].strip()
SelfEvolveCritique ==
    /\ pc = "plan_critique"
    /\ WorkerRuns
    /\ Called
    /\ \E feedback_response \in CritiqueResponses :
          LET pieces == Split(feedback_response, "REVISED_TEXT:")
              evolved == Append(evolved_variants, Strip(pieces[2]))
          IN  IF Len(pieces) < 2
              THEN /\ Raise("list index out of range")
                   /\ UNCHANGED <<planVars>>
              ELSE /\ IF Len(evolved) < Len(variants)
                      THEN /\ evolved_variants' = evolved
                           /\ UNCHANGED <<variants, evolution_step>>
                           /\ pc' = "plan_critique"
                      ELSE /\ variants' = evolved
                           /\ evolved_variants' = <<>>
                           /\ evolution_step' = evolution_step + 1
                           /\ pc' = AfterRound(evolution_step + 1, evolved)
                   /\ UNCHANGED <<exc, intermediate_log, emitted, ready, final_report>>
    /\ UNCHANGED <<chunkVars, retryVars, cfgVars, reportVars, loopVars, stateVars, streamVars, response>>

\* self_evolve: the merge call; then the rest of generate_research_plan and
\* generate_initial_draft up to its call
SelfEvolveMerge ==
    /\ pc = "plan_merge"
    /\ WorkerRuns
    /\ Called
    /\ \E final_merged_text \in MergeTexts :
          LET plan_desc == "**Research Plan Generated:**\n" \o final_merged_text
          IN  /\ plan' = final_merged_text
              /\ q_a_history' = Append(q_a_history, [description |-> plan_desc])
              /\ Deliver(Note(Note(Here, plan_desc),
                              "Generating initial draft from internal knowledge..."))
    /\ pc' = "draft"
    /\ UNCHANGED <<chunkVars, retryVars, cfgVars, reportVars, planVars, loopVars, draft, citations, streamVars,
                   response, exc>>

\* generate_initial_draft: the call and what follows it
GenerateInitialDraft ==
    /\ pc = "draft"
    /\ WorkerRuns
    /\ Called
    /\ \E t \in DraftTexts :
          LET draft_desc == "**Initial Draft Created:**\n" \o Prefix(t, 200) \o "..."
          IN  /\ draft' = t
              /\ q_a_history' = Append(q_a_history, [description |-> draft_desc])
              /\ Deliver(Note(Here, draft_desc))
    /\ pc' = "loop"
    /\ iteration' = 0
    /\ UNCHANGED <<chunkVars, retryVars, cfgVars, reportVars, planVars, search_query, synthesized_answer, plan,
                   citations, streamVars, response, exc>>

(***************************************************************************)
(* The iterative loop.                                                     *)
(***************************************************************************)
\* generate_search_query: step_desc
IterationDesc(i) ==
    "**Iteration " \o Str(i + 1) \o "/" \o Str(max_iterations)
        \o ":** Generating next search query..."

\* the loop test of an iteration that retrieves with whatever query it got
AnyQuery(q) == FALSE

\* perform_iterative_search_and_synthesis: the test that skips an iteration
NoValidQuery(q) == q = None \/ Strip(q) = ""

\* after generate_search_query returned q, having sent s: skip the iteration,
\* or start retrieve_and_synthesize_documents up to its call
WithQuery(q, s) ==
    /\ search_query' = q
    /\ IF NoValidQuery(q)
       THEN /\ iteration' = iteration + 1
            /\ pc' = "loop"
            /\ Deliver(s)
       ELSE /\ iteration' = iteration
            /\ pc' = "retrieve"
            /\ Deliver(Note(s, "Searching web and synthesizing answer with Gemini grounded generation..."))

\* a generate_search_query that asks the provider in iteration 0 as well
IterationZeroFormulates ==
    /\ pc = "loop"
    /\ WorkerRuns
    /\ iteration < max_iterations
    /\ iteration = 0
    /\ Deliver(Note(Here, IterationDesc(iteration)))
    /\ pc' = "query_gen"
    /\ UNCHANGED <<chunkVars, retryVars, cfgVars, reportVars, planVars, loopVars, stateVars, streamVars, response,
                   exc, provider_calls>>

\* a loop that runs its body once before it tests the iteration count
IterationBeforeTest ==
    /\ pc = "loop"
    /\ WorkerRuns
    /\ iteration = 0
    /\ WithQuery(query,
                 Note(Note(Here, IterationDesc(iteration)),
                      "**Searching for (direct query):** " \o BT \o query \o BT))
    /\ UNCHANGED <<chunkVars, retryVars, cfgVars, reportVars, planVars, synthesized_answer, stateVars, streamVars,
                   response, exc, provider_calls>>

\* the loop starts iteration 0: generate_search_query returns the user's query
IterationDirectQuery ==
    /\ pc = "loop"
    /\ WorkerRuns
    /\ iteration < max_iterations
    /\ iteration = 0
    /\ WithQuery(query,
                 Note(Note(Here, IterationDesc(iteration)),
                      "**Searching for (direct query):** " \o BT \o query \o BT))
    /\ UNCHANGED <<chunkVars, retryVars, cfgVars, reportVars, planVars, synthesized_answer, stateVars, streamVars,
                   response, exc, provider_calls>>

\* the loop starts a later iteration: generate_search_query up to its call
IterationFormulateQuery ==
    /\ pc = "loop"
    /\ WorkerRuns
    /\ iteration < max_iterations
    /\ iteration # 0
    /\ Deliver(Note(Here, IterationDesc(iteration)))
    /\ pc' = "query_gen"
    /\ UNCHANGED <<chunkVars, retryVars, cfgVars, reportVars, planVars, loopVars, stateVars, streamVars, response,
                   exc, provider_calls>>

\* generate_search_query: the call and what follows it
GenerateSearchQuery ==
    /\ pc = "query_gen"
    /\ WorkerRuns
    /\ Called
    /\ \E t \in QueryTexts :
          WithQuery(t, Note(Here, "**Searching for (generated query):** " \o BT \o t \o BT))
    /\ UNCHANGED <<chunkVars, retryVars, cfgVars, reportVars, planVars, synthesized_answer, stateVars, streamVars,
                   response, exc>>

\* revise_draft_with_new_info up to its call
StartRevision(s) == Note(s, "Revising draft with new information...")

\* a retrieve_and_synthesize_documents that adds to citations only the URLs
\* that are not in it yet
RetrieveAndSynthesizeUnique ==
    /\ pc = "retrieve"
    /\ WorkerRuns
    /\ Called
    /\ \E r \in GroundedResults :
          LET cits == [k \in 1..Len(r.citations) |-> r.citations[k].url]
              desc == "**Synthesized Answer for " \o BT \o search_query \o BT \o ":**\n" \o r.answer
              s1 == SendUpdate(Here,
                               "**Grounded generation complete:** " \o Str(Len(cits))
                                   \o " sources used. Synthesizing answer...",
                               TRUE, None, cits, FALSE)
          IN  /\ citations' = citations \o SelectSeq(cits, LAMBDA u : \A k \in DOMAIN citations :
                                                                         citations[k] # u)
              /\ q_a_history' = Append(q_a_history,
                                       [description |-> desc,
                                        query |-> search_query,
                                        answer |-> r.answer])
              /\ synthesized_answer' = r.answer
              /\ Deliver(StartRevision(Note(s1, desc)))
    /\ pc' = "revise"
    /\ UNCHANGED <<chunkVars, retryVars, cfgVars, reportVars, planVars, iteration, search_query, plan, draft,
                   streamVars, response, exc>>

\* retrieve_and_synthesize_documents: grounded generation returned
RetrieveAndSynthesize ==
    /\ pc = "retrieve"
    /\ WorkerRuns
    /\ Called
    /\ \E r \in GroundedResults :
          LET cits == [k \in 1..Len(r.citations) |-> r.citations[k].url]
              desc == "**Synthesized Answer for " \o BT \o search_query \o BT \o ":**\n" \o r.answer
              s1 == SendUpdate(Here,
                               "**Grounded generation complete:** " \o Str(Len(cits))
                                   \o " sources used. Synthesizing answer...",
                               TRUE, None, cits, FALSE)
          IN  /\ citations' = citations \o cits
              /\ q_a_history' = Append(q_a_history,
                                       [description |-> desc,
                                        query |-> search_query,
                                        answer |-> r.answer])
              /\ synthesized_answer' = r.answer
              /\ Deliver(StartRevision(Note(s1, desc)))
    /\ pc' = "revise"
    /\ UNCHANGED <<chunkVars, retryVars, cfgVars, reportVars, planVars, iteration, search_query, plan, draft,
                   streamVars, response, exc>>

\* retrieve_and_synthesize_documents without its try block: the exception of
\* grounded generation leaves the run
RetrieveFailsFatal ==
    /\ pc = "retrieve"
    /\ WorkerRuns
    /\ Called
    /\ \E e \in GroundedErrors : Raise(e)
    /\ UNCHANGED <<chunkVars, retryVars, cfgVars, reportVars, planVars, loopVars, stateVars, streamVars, response>>

\* retrieve_and_synthesize_documents: grounded generation raised (the except clause)
RetrieveFails ==
    /\ pc = "retrieve"
    /\ WorkerRuns
    /\ Called
    /\ \E e \in GroundedErrors :
          LET error_msg == "Unable to retrieve web information for this query: " \o e
          IN  /\ synthesized_answer' = error_msg
              /\ Deliver(StartRevision(Note(Here, "**Warning:** " \o error_msg)))
    /\ pc' = "revise"
    /\ UNCHANGED <<chunkVars, retryVars, cfgVars, reportVars, planVars, iteration, search_query, stateVars,
                   streamVars, response, exc>>

\* a revise_draft_with_new_info that reports the revision and keeps the old draft
ReviseDraftKeepsDraft ==
    /\ pc = "revise"
    /\ WorkerRuns
    /\ Called
    /\ \E t \in RevisionTexts :
          LET revised_desc == "**Revised Draft " \o Str(iteration + 1) \o ":**\n"
                                  \o Prefix(t, 200) \o "..."
          IN  /\ q_a_history' = Append(q_a_history, [description |-> revised_desc])
              /\ Deliver(Note(Here, revised_desc))
    /\ iteration' = iteration + 1
    /\ pc' = "loop"
    /\ UNCHANGED <<chunkVars, retryVars, cfgVars, reportVars, planVars, search_query, synthesized_answer, plan,
                   draft, citations, streamVars, response, exc>>

\* revise_draft_with_new_info: the call and what follows it; the iteration ends
ReviseDraft ==
    /\ pc = "revise"
    /\ WorkerRuns
    /\ Called
    /\ \E t \in RevisionTexts :
          LET revised_desc == "**Revised Draft " \o Str(iteration + 1) \o ":**\n"
                                  \o Prefix(t, 200) \o "..."
          IN  /\ draft' = t
              /\ q_a_history' = Append(q_a_history, [description |-> revised_desc])
              /\ Deliver(Note(Here, revised_desc))
    /\ iteration' = iteration + 1
    /\ pc' = "loop"
    /\ UNCHANGED <<chunkVars, retryVars, cfgVars, reportVars, planVars, search_query, synthesized_answer, plan,
                   citations, streamVars, response, exc>>

(***************************************************************************)
(* The legacy single-pass report.                                          *)
(***************************************************************************)
\* generate_final_report up to its call
StartFinalReport(s) == Note(s, "All research steps complete. Generating final report...")

\* run: the loop is over and the pipeline is not structured
LoopExitLegacy ==
    /\ pc = "loop"
    /\ WorkerRuns
    /\ iteration >= max_iterations
    /\ ~enable_structured
    /\ Deliver(StartFinalReport(Here))
    /\ pc' = "legacy_final"
    /\ UNCHANGED <<chunkVars, retryVars, cfgVars, reportVars, planVars, loopVars, stateVars, streamVars, response,
                   exc, provider_calls>>

\* generate_final_report: the call and the terminal update
GenerateFinalReport ==
    /\ pc = "legacy_final"
    /\ WorkerRuns
    /\ Called
    /\ \E final_report_content \in FinalTexts :
          Deliver(SendUpdate(Here, "Final report generated.", FALSE,
                             final_report_content, citations, TRUE))
    /\ pc' = "done"
    /\ UNCHANGED <<chunkVars, retryVars, cfgVars, reportVars, planVars, loopVars, stateVars, streamVars, response, exc>>

(***************************************************************************)
(* The structured report.                                                  *)
(***************************************************************************)
\* run: the loop is over and the pipeline is structured;
\* generate_report_structure up to its call
LoopExitStructured ==
    /\ pc = "loop"
    /\ WorkerRuns
    /\ iteration >= max_iterations
    /\ enable_structured
    /\ Deliver(Note(Here, "Generating comprehensive report structure..."))
    /\ pc' = "structure"
    /\ UNCHANGED <<chunkVars, retryVars, cfgVars, reportVars, planVars, loopVars, stateVars, streamVars,
                   response, exc, provider_calls>>

\* generate_report_structure: the call and what follows it; then
\* generate_structured_report up to the call of the executive summary
GenerateReportStructure ==
    /\ pc = "structure"
    /\ WorkerRuns
    /\ Called
    \* the responses that end in the default structure are followed in the runs
    \* of the report queries
    /\ \E parsed \in {p \in StructureResponses :
                          \/ p.kind = "list"
                          \/ p.kind = "json" /\ HasKeys(p.data)
                          \/ query \in ReportQueries} :
          IF parsed.kind = "list"
          THEN \* structure_data["executive_summary"] on a list: a TypeError, which
               \* the except clause of generate_chapter_outline does not name
               /\ Raise("list indices must be integers or slices, not str")
               /\ UNCHANGED report_structure
          ELSE \E structure \in {ChapterOutline(parsed)} :
                  LET structure_desc ==
                          "**Report Structure Generated:**\n"
                              \o "- " \o Str(TotalSections(structure)) \o " total sections\n"
                              \o "- " \o Str(Len(structure.chapters)) \o " chapters\n"
                              \o "- ~" \o Str(structure.estimated_word_count) \o " target words"
                  IN  /\ report_structure' = structure
                      /\ Deliver(Note(Note(Here, structure_desc),
                                      "Starting structured report generation..."))
                      /\ pc' = "exec_summary"
                      /\ UNCHANGED exc
    /\ UNCHANGED <<chunkVars, retryVars, cfgVars, generated_sections, chapter_number, section_number,
                   current_section, attempt, regeneration_guidance, prompt_guidance, previous_sections_text,
                   section, faulty, planVars, loopVars,
                   stateVars, streamVars, response>>

\* the provider may misbehave at the calls of the section with this id: at
\* those of MaxFaulty sections, and of one section when the structure has
\* several main sections
MayFail(id) ==
    \/ id \in faulty
    \/ Cardinality(faulty) < (IF MainSections(report_structure.chapters) > 1 THEN 1
                               ELSE MaxFaulty)

\* generate_structured_report: the chapter loop from chapter c on, up to the
\* first section there is: the updates sent and the chapter reached
RECURSIVE EnterChapters(_, _, _)
EnterChapters(structure, s, c) ==
    IF c > Len(structure.chapters) THEN [s |-> s, chapter |-> c]
    ELSE LET chapter == structure.chapters[c]
             s1 == Note(s, "Starting Chapter " \o Str(chapter.chapter_number)
                               \o ": " \o chapter.title)
         IN  IF chapter.sections = <<>> THEN EnterChapters(structure, s1, c + 1)
             ELSE [s |-> s1, chapter |-> c]

\* generate_structured_report goes on to the first section of chapter c and
\* the chapters after it, or to the conclusion
GoToChapter(s, c) ==
    \E at \in {EnterChapters(report_structure, s, c)} :
        /\ Deliver(at.s)
        /\ chapter_number' = at.chapter
        /\ section_number' = 1
        /\ current_section' = IF at.chapter > Len(report_structure.chapters)
                              THEN current_section ELSE current_section + 1
        /\ attempt' = 1
        /\ pc' = IF at.chapter > Len(report_structure.chapters)
                 THEN "conclusion" ELSE "section"

\* generate_executive_summary: the call and what follows it
GenerateExecutiveSummary ==
    /\ pc = "exec_summary"
    /\ WorkerRuns
    /\ Called
    /\ \E failed \in BOOLEAN :
          /\ failed => MayFail("0.1")
          /\ faulty' = IF failed THEN faulty \cup {"0.1"} ELSE faulty
          /\ \E content \in ExecTexts, e \in SectionErrors :
                \E exec_summary \in
                        {IF failed
                         THEN ExecutiveSummaryFallback(report_structure.executive_summary, e)
                         ELSE Generated(report_structure.executive_summary, content)} :
                    /\ generated_sections' = Append(generated_sections, exec_summary)
                    /\ GoToChapter(Note(Here, "Executive Summary generated ("
                                                  \o Str(exec_summary.word_count) \o " words)"),
                                   1)
    /\ UNCHANGED <<chunkVars, retryVars, cfgVars, report_structure, section, regeneration_guidance,
                   prompt_guidance, previous_sections_text, planVars, loopVars, stateVars, streamVars, response, exc>>

\* generate_section: the guidance argument of SECTION_GENERATION_PROMPT.format
PromptGuidance(spec, guidance) ==
    spec.guidance \o (IF guidance # "" THEN "\n\nREGENERATION GUIDANCE:\n" \o guidance ELSE "")

\* a build_generation_context that puts the recent sections first
BuildContextRecentFirst(sections, summary, failed) ==
    LET n == Len(sections)
        older == SubSeq(sections, 1, n - 5)
        recent == SubSeq(sections, IF n > 5 THEN n - 4 ELSE 1, n)
    IN  [k \in 1..Len(recent) |->
            "[" \o GetFullId(recent[k].spec) \o "] " \o recent[k].spec.title
                \o " (Full):\n" \o recent[k].content]
        \o [k \in 1..Len(older) |->
               "[" \o GetFullId(older[k].spec) \o "] " \o older[k].spec.title \o ": "
                   \o older[k].summary]

\* build_generation_context: previous_sections_text, with the default
\* sliding_window_size of 5; a section without summary is compressed on the
\* fly, and the provider returns summary or raises (failed)
BuildGenerationContext(sections, summary, failed) ==
    LET n == Len(sections)
        older == SubSeq(sections, 1, n - 5)
        recent == SubSeq(sections, IF n > 5 THEN n - 4 ELSE 1, n)
    IN  [k \in 1..Len(older) |->
            "[" \o GetFullId(older[k].spec) \o "] " \o older[k].spec.title \o ": "
                \o (IF older[k].summary # "" THEN older[k].summary
                    ELSE CompressSectionToSummary(older[k], summary, failed))]
        \o [k \in 1..Len(recent) |->
               "[" \o GetFullId(recent[k].spec) \o "] " \o recent[k].spec.title
                   \o " (Full):\n" \o recent[k].content]

\* build_generation_context: the provider calls it makes, by call site
ContextCalls(sections) ==
    IF sections = <<>> THEN <<>>
    ELSE LET older == SubSeq(sections, 1, Len(sections) - 5)
         IN  [k \in 1..Cardinality({j \in 1..Len(older) : older[j].summary = ""}) |->
                 "compress"]
             \o <<"key_insights">>

\* a _generate_section_with_validation that keeps the attempt it rejects among
\* the generated sections
GenerateSectionKeepsRejected ==
    /\ pc = "section"
    /\ WorkerRuns
    /\ LET section_spec == report_structure.chapters[chapter_number].sections[section_number]
           id == GetFullId(section_spec)
           progress == "Section " \o Str(current_section) \o "/"
                           \o Str(MainSections(report_structure.chapters))
           max_attempts == 2
           s0 == IF attempt > 1
                 THEN Note(Here, progress \o ": Regenerating (attempt " \o Str(attempt)
                                     \o "/" \o Str(max_attempts) \o ")...")
                 ELSE Here
       IN  /\ provider_calls' = provider_calls \o ContextCalls(generated_sections)
                                    \o <<"section">>
           \* regeneration_guidance = "" at the top of the turn is what the call gets
           /\ prompt_guidance' = PromptGuidance(section_spec, "")
           \* the compression on the fly can fail only where there is one
           /\ \E summary \in SummaryTexts :
                \E failed \in {f \in BOOLEAN :
                                  f => Len(ContextCalls(generated_sections)) > 1} :
                    previous_sections_text'
                        = BuildGenerationContext(generated_sections, summary, failed)
           \* the redundant text is followed in the runs of the report queries
           /\ \E content \in {c \in SectionTexts(id) \cup SectionErrors :
                                   /\ c # GoodText(id) => MayFail(id)
                                   /\ c = RedundantText => query \in ReportQueries} :
                \E generated \in {IF content \in SectionErrors
                                  THEN SectionFallback(section_spec, content)
                                  ELSE Generated(section_spec, content)} :
                \E validation_result \in
                        {ValidateSection(generated, generated_sections, attempt)} :
                \E should \in {ShouldRegenerate(validation_result, attempt, max_attempts)} :
                    \E misbehaved \in {~validation_result.is_valid \/ content # GoodText(id)} :
                    /\ misbehaved => MayFail(id)
                    /\ faulty' = IF misbehaved THEN faulty \cup {id} ELSE faulty
                    /\ IF should.regen
                       THEN /\ attempt' = attempt + 1
                            /\ regeneration_guidance' = should.guidance
                            /\ pc' = "section"
                            /\ Deliver(s0)
                            /\ generated_sections' = Append(generated_sections, generated)
                            /\ UNCHANGED section
                       ELSE /\ section' = generated
                            /\ regeneration_guidance' = ""
                            /\ pc' = "compress"
                            /\ Deliver(IF ~validation_result.is_valid
                                       THEN Note(s0, "(!) " \o progress
                                                \o ": Quality issues detected but proceeding (max attempts reached)")
                                       ELSE s0)
                            /\ UNCHANGED <<attempt, generated_sections>>
    /\ UNCHANGED <<chunkVars, retryVars, cfgVars, report_structure, chapter_number,
                   section_number, current_section, planVars, loopVars, stateVars,
                   streamVars, response, exc>>

\* _generate_section_with_validation: one turn of its loop
GenerateSection ==
    /\ pc = "section"
    /\ WorkerRuns
    /\ LET section_spec == report_structure.chapters[chapter_number].sections[section_number]
           id == GetFullId(section_spec)
           progress == "Section " \o Str(current_section) \o "/"
                           \o Str(MainSections(report_structure.chapters))
           max_attempts == 2
           s0 == IF attempt > 1
                 THEN Note(Here, progress \o ": Regenerating (attempt " \o Str(attempt)
                                     \o "/" \o Str(max_attempts) \o ")...")
                 ELSE Here
       IN  /\ provider_calls' = provider_calls \o ContextCalls(generated_sections)
                                    \o <<"section">>
           \* regeneration_guidance = "" at the top of the turn is what the call gets
           /\ prompt_guidance' = PromptGuidance(section_spec, "")
           \* the compression on the fly can fail only where there is one
           /\ \E summary \in SummaryTexts :
                \E failed \in {f \in BOOLEAN :
                                  f => Len(ContextCalls(generated_sections)) > 1} :
                    previous_sections_text'
                        = BuildGenerationContext(generated_sections, summary, failed)
           \* the redundant text is followed in the runs of the report queries
           /\ \E content \in {c \in SectionTexts(id) \cup SectionErrors :
                                   /\ c # GoodText(id) => MayFail(id)
                                   /\ c = RedundantText => query \in ReportQueries} :
                \E generated \in {IF content \in SectionErrors
                                  THEN SectionFallback(section_spec, content)
                                  ELSE Generated(section_spec, content)} :
                \E validation_result \in
                        {ValidateSection(generated, generated_sections, attempt)} :
                \E should \in {ShouldRegenerate(validation_result, attempt, max_attempts)} :
                    \E misbehaved \in {~validation_result.is_valid \/ content # GoodText(id)} :
                    /\ misbehaved => MayFail(id)
                    /\ faulty' = IF misbehaved THEN faulty \cup {id} ELSE faulty
                    /\ IF should.regen
                       THEN /\ attempt' = attempt + 1
                            /\ regeneration_guidance' = should.guidance
                            /\ pc' = "section"
                            /\ Deliver(s0)
                            /\ UNCHANGED section
                       ELSE /\ section' = generated
                            /\ regeneration_guidance' = ""
                            /\ pc' = "compress"
                            /\ Deliver(IF ~validation_result.is_valid
                                       THEN Note(s0, "(!) " \o progress
                                                \o ": Quality issues detected but proceeding (max attempts reached)")
                                       ELSE s0)
                            /\ UNCHANGED attempt
    /\ UNCHANGED <<chunkVars, retryVars, cfgVars, report_structure, generated_sections, chapter_number,
                   section_number, current_section, planVars, loopVars, stateVars,
                   streamVars, response, exc>>

\* generate_structured_report: the section is compressed and appended; the
\* loops go on to the next section
CompressSection ==
    /\ pc = "compress"
    /\ WorkerRuns
    /\ Called
    /\ LET id == GetFullId(section.spec)
           progress == "Section " \o Str(current_section) \o "/"
                           \o Str(MainSections(report_structure.chapters))
       IN  \E failed \in BOOLEAN :
             /\ failed => MayFail(id)
             /\ faulty' = IF failed THEN faulty \cup {id} ELSE faulty
             /\ \E summary \in SummaryTexts :
                  \E done \in {[section EXCEPT
                                  !.summary = CompressSectionToSummary(section, summary, failed)]} :
                  LET s == Note(Here, "Completed " \o progress \o ": " \o done.spec.title
                                          \o " (" \o Str(done.word_count) \o " words, "
                                          \o Str(Len(done.citations_used)) \o " citations)")
                  IN  /\ generated_sections' = Append(generated_sections, done)
                      /\ IF section_number
                              < Len(report_structure.chapters[chapter_number].sections)
                         THEN /\ section_number' = section_number + 1
                              /\ current_section' = current_section + 1
                              /\ attempt' = 1
                              /\ pc' = "section"
                              /\ Deliver(s)
                              /\ UNCHANGED chapter_number
                         ELSE GoToChapter(s, chapter_number + 1)
    /\ section' = NoSection
    /\ UNCHANGED <<chunkVars, retryVars, cfgVars, report_structure, regeneration_guidance, prompt_guidance, previous_sections_text,
                   planVars, loopVars, stateVars, streamVars, response, exc>>

\* generate_conclusion: the call and what follows it; the report is
\* assembled and sent with the terminal update
GenerateConclusion ==
    /\ pc = "conclusion"
    /\ WorkerRuns
    /\ Called
    /\ LET id == GetFullId(report_structure.conclusion)
       IN  \E failed \in BOOLEAN :
             /\ failed => MayFail(id)
             /\ faulty' = IF failed THEN faulty \cup {id} ELSE faulty
             /\ \E content \in ConclusionTexts, e \in SectionErrors :
                  \E conclusion \in
                          {IF failed THEN ConclusionFallback(report_structure.conclusion, e)
                           ELSE Generated(report_structure.conclusion, content)} :
                  LET sections == Append(generated_sections, conclusion)
                      s == Note(Note(Here, "Conclusion generated ("
                                               \o Str(conclusion.word_count) \o " words)"),
                                "Assembling final report...")
                  IN  /\ generated_sections' = sections
                      /\ Deliver(SendUpdate(s, "Structured report generation complete.",
                                            FALSE,
                                            AssembleFinalReport(report_structure, sections),
                                            citations, TRUE))
    /\ pc' = "done"
    /\ UNCHANGED <<chunkVars, retryVars, cfgVars, report_structure, chapter_number, section_number,
                   current_section, attempt, regeneration_guidance, prompt_guidance, previous_sections_text,
                   section, planVars, loopVars, stateVars,
                   streamVars, response, exc>>

(***************************************************************************)
(* The streaming bridge of POST /run and the static endpoint.              *)
(***************************************************************************)
\* json.dumps of one character of a string
JsonChar(c) ==
    IF c = "\\" THEN "\\\\"
    ELSE IF c = "\"" THEN "\\\""
    ELSE IF c = "\n" THEN "\\n"
    ELSE IF c = "\t" THEN "\\t"
    ELSE c

\* json.dumps of the characters of a string
JsonEscape(s) ==
    LET escape[t \in STRING] ==
            IF Len(t) = 0 THEN ""
            ELSE IF Len(t) = 1 THEN JsonChar(t)
            ELSE escape[SubSeq(t, 1, Len(t) \div 2)]
                     \o escape[SubSeq(t, Len(t) \div 2 + 1, Len(t))]
    IN  escape[s]

\* json.dumps of a string
JsonString(s) == "\"" \o JsonEscape(s) \o "\""

\* json.dumps of a str | None value
JsonText(v) == IF v = None THEN "null" ELSE JsonString(v)

\* json.dumps of a bool
JsonBool(b) == IF b THEN "true" ELSE "false"

\* json.dumps of one key of an update, by the key's type
JsonMember(update, key) ==
    JsonString(key) \o ": " \o
        (IF key \in {"complete", "is_intermediate"} THEN JsonBool(update[key])
         ELSE IF key = "citations"
              THEN "[" \o Join(", ", [k \in 1..Len(update[key]) |->
                                          JsonString(update[key][k])]) \o "]"
              ELSE JsonText(update[key]))

\* the keys of the updates in the order the code inserts them
KeyOrder == <<"error", "intermediate_steps", "final_report", "is_intermediate",
              "complete", "citations">>

\* json.dumps(update)
JsonDumps(update) ==
    LET keys == SelectSeq(KeyOrder, LAMBDA k : k \in DOMAIN update)
    IN  "{" \o Join(", ", [k \in 1..Len(keys) |-> JsonMember(update, keys[k])]) \o "}"

\* a queue that puts the update at its head
PutFront(q, update) == <<update>> \o q

\* the event loop runs the next scheduled callback: queue.put_nowait(update)
PutNowait(q, update) == Append(q, update)

LoopRunsCallback ==
    /\ ready # <<>>
    /\ queue' = PutNowait(queue, Head(ready))
    /\ ready' = Tail(ready)
    /\ UNCHANGED <<chunkVars, retryVars, cfgVars, reportVars, pc, planVars, loopVars, stateVars, intermediate_log,
                   emitted, provider_calls, exc, delivered, publisher, cancelled_at,
                   final_report, response>>

\* event_publisher: update = await queue.get(); yield; break on complete
EventPublisher ==
    /\ publisher = "get"
    /\ queue # <<>>
    /\ LET update == Head(queue)
       IN  /\ delivered' = Append(delivered, [data |-> JsonDumps(update)])
           /\ publisher' = IF "complete" \in DOMAIN update /\ update.complete = TRUE
                           THEN "done" ELSE "get"
    /\ queue' = Tail(queue)
    /\ UNCHANGED <<chunkVars, retryVars, cfgVars, reportVars, pc, planVars, loopVars, stateVars, intermediate_log,
                   emitted, provider_calls, exc, ready, final_report, response, cancelled_at>>

\* evaluate_endpoint: run_rag_static returned final_report
EvaluateReturns ==
    /\ mode = "static"
    /\ pc = "done"
    /\ response = None
    /\ response' = final_report
    /\ UNCHANGED <<chunkVars, retryVars, cfgVars, reportVars, pc, planVars, loopVars, stateVars, intermediate_log,
                   emitted, provider_calls, exc, ready, streamVars, final_report>>

\* evaluate_endpoint: run_rag_static raised; HTTPException(status_code=500)
EvaluateFails ==
    /\ mode = "static"
    /\ pc = "raised"
    /\ response = None
    /\ response' = "HTTP 500: Static evaluation failed"
    /\ UNCHANGED <<chunkVars, retryVars, cfgVars, reportVars, pc, planVars, loopVars, stateVars, intermediate_log,
                   emitted, provider_calls, exc, ready, streamVars, final_report>>

Next ==
    \/ GenerateResearchPlan
    \/ SelfEvolveVariant
    \/ SelfEvolveCritique
    \/ SelfEvolveMerge
    \/ GenerateInitialDraft
    \/ IterationDirectQuery
    \/ IterationFormulateQuery
    \/ GenerateSearchQuery
    \/ RetrieveAndSynthesize
    \/ RetrieveFails
    \/ ReviseDraft
    \/ LoopExitLegacy
    \/ GenerateFinalReport
    \/ LoopExitStructured
    \/ GenerateReportStructure
    \/ GenerateExecutiveSummary
    \/ GenerateSection
    \/ CompressSection
    \/ GenerateConclusion
    \/ ProviderFailure
    \/ LoopRunsCallback
    \/ EventPublisher
    \/ EvaluateReturns
    \/ EvaluateFails

Spec == Init /\ [][Next]_vars

(***************************************************************************)
(* The report generation on its own: the pipeline is run on a report       *)
(* query, structured and without search iterations.                        *)
(***************************************************************************)
\* a script constructs the pipeline for a report query and calls run
InitReport ==
    /\ InitPipeline
    /\ query \in ReportQueries
    /\ ChunkerIdle
    /\ max_retries = DEFAULT_MAX_RETRIES
    /\ operation_name = "Grounded generation"
    /\ retry_attempt = 0
    /\ retry_pc = "idle"
    /\ invocations = 0
    /\ sleeps = <<>>
    /\ last_exception = None
    /\ retry_result = None

\* TTD_DR_Pipeline.run without iterations: the plan, the draft and the
\* structured report
NextReport ==
    \/ GenerateResearchPlan
    \/ SelfEvolveVariant
    \/ SelfEvolveCritique
    \/ SelfEvolveMerge
    \/ GenerateInitialDraft
    \/ LoopExitStructured
    \/ GenerateReportStructure
    \/ GenerateExecutiveSummary
    \/ GenerateSection
    \/ CompressSection
    \/ GenerateConclusion
    \/ ProviderFailure

SpecReport == InitReport /\ [][NextReport]_vars

(***************************************************************************)
(* The streaming request whose client may go away: the response is         *)
(* cancelled while event_publisher waits in queue.get().                   *)
(***************************************************************************)
\* event_publisher: except asyncio.CancelledError: pipeline_task.cancel();
\* raise.  The task that is cancelled awaits asyncio.to_thread(run_pipeline):
\* the thread itself is not interrupted and pc stays where it is.
ClientDisconnects ==
    /\ publisher = "get"
    /\ publisher' = "cancelled"
    /\ cancelled_at' = <<Len(provider_calls), Len(emitted)>>
    /\ UNCHANGED <<chunkVars, retryVars, cfgVars, reportVars, pc, planVars, loopVars,
                   stateVars, intermediate_log, emitted, provider_calls, exc, ready,
                   queue, delivered, final_report, response>>

NextDisconnect ==
    \/ Next
    \/ ClientDisconnects

SpecDisconnect == Init /\ [][NextDisconnect]_vars

(***************************************************************************)
(* The retry wrapper on its own: one call of _retry_with_backoff.          *)
(***************************************************************************)
pipelineVars == <<chunkVars, cfgVars, reportVars, pc, planVars, loopVars, stateVars,
                  intermediate_log, emitted, provider_calls, exc, ready, streamVars,
                  final_report, response>>

\* a client with some max_retries enters _retry_with_backoff
InitRetry ==
    /\ InitPipeline
    /\ ChunkerIdle
    /\ mode = "direct"
    /\ enable_structured = ENABLE_STRUCTURED_REPORTS
    /\ max_iterations = MAX_SEARCH_ITERATIONS
    /\ max_retries \in 0..MaxRetriesArg
    /\ operation_name \in OperationNames
    /\ retry_attempt = 0
    /\ retry_pc = "call"
    /\ invocations = 0
    /\ sleeps = <<>>
    /\ last_exception = None
    /\ retry_result = None

\* the body of the for loop: func() returns
RetryInvokeReturns ==
    /\ retry_pc = "call"
    /\ retry_attempt < max_retries
    /\ invocations' = invocations + 1
    /\ \E v \in ApiResults : retry_result' = v
    /\ retry_pc' = "returned"
    /\ UNCHANGED <<pipelineVars, max_retries, operation_name, retry_attempt, sleeps,
                   last_exception>>

\* the except clause if it slept after the last attempt as well
RetryInvokeRaisesSleepsLast ==
    /\ retry_pc = "call"
    /\ retry_attempt < max_retries
    /\ invocations' = invocations + 1
    /\ \E error_str \in ApiErrors :
          /\ last_exception' = error_str
          /\ IF IsRetryable(error_str)
             THEN /\ sleeps' = Append(sleeps, RetryDelay(error_str, retry_attempt, RetryDelays))
                  /\ retry_attempt' = retry_attempt + 1
                  /\ retry_pc' = "call"
                  /\ UNCHANGED retry_result
             ELSE /\ retry_result' = RetryError(operation_name, error_str,
                                                retry_attempt + 1, max_retries)
                  /\ retry_pc' = "raised"
                  /\ UNCHANGED <<sleeps, retry_attempt>>
    /\ UNCHANGED <<pipelineVars, max_retries, operation_name>>

\* the body of the for loop: func() raises; the except clause
RetryInvokeRaises ==
    /\ retry_pc = "call"
    /\ retry_attempt < max_retries
    /\ invocations' = invocations + 1
    /\ \E error_str \in ApiErrors :
          /\ last_exception' = error_str
          /\ IF IsRetryable(error_str) /\ retry_attempt < max_retries - 1
             THEN /\ sleeps' = Append(sleeps, RetryDelay(error_str, retry_attempt, RetryDelays))
                  /\ retry_attempt' = retry_attempt + 1
                  /\ retry_pc' = "call"
                  /\ UNCHANGED retry_result
             ELSE /\ retry_result' = RetryError(operation_name, error_str,
                                                retry_attempt + 1, max_retries)
                  /\ retry_pc' = "raised"
                  /\ UNCHANGED <<sleeps, retry_attempt>>
    /\ UNCHANGED <<pipelineVars, max_retries, operation_name>>

\* the for loop ends without a return or a raise: the raise after it
RetryExhausted ==
    /\ retry_pc = "call"
    /\ retry_attempt >= max_retries
    /\ retry_result' = "Gemini API " \o operation_name \o " failed after "
                           \o Str(max_retries) \o " retries. Pipeline terminated."
    /\ retry_pc' = "raised"
    /\ UNCHANGED <<pipelineVars, max_retries, operation_name, retry_attempt,
                   invocations, sleeps, last_exception>>

\* retrieve: GeminiClient.search raised, retrieve_gemini_search raised it
\* again, and the outer except clause returns the empty list
RetrieveSearchFails ==
    /\ retry_pc = "raised"
    /\ operation_name = "Search"
    /\ retrieve_result = [kind |-> "pending"]
    /\ retrieve_result' = [kind |-> "returned", value |-> <<>>]
    /\ UNCHANGED <<retryVars, cfgVars, reportVars, pc, planVars, loopVars, stateVars,
                   intermediate_log, emitted, provider_calls, exc, ready, streamVars,
                   final_report, response, sentences, max_tokens, overlap, min_tokens,
                   chunks, current_chunk, current_tokens, char_pos, sent_index, chunk_pc,
                   rerankVars>>

\* retrieve_with_grounded_generation: complete_with_search raised and the
\* except clause raises it again
RetrieveGroundedFails ==
    /\ retry_pc = "raised"
    /\ operation_name = "Grounded generation"
    /\ retrieve_result = [kind |-> "pending"]
    /\ retrieve_result' = [kind |-> "raised", value |-> retry_result]
    /\ UNCHANGED <<retryVars, cfgVars, reportVars, pc, planVars, loopVars, stateVars,
                   intermediate_log, emitted, provider_calls, exc, ready, streamVars,
                   final_report, response, sentences, max_tokens, overlap, min_tokens,
                   chunks, current_chunk, current_tokens, char_pos, sent_index, chunk_pc,
                   rerankVars>>

NextRetry ==
    \/ RetryInvokeReturns
    \/ RetryInvokeRaises
    \/ RetryExhausted
    \/ RetrieveSearchFails
    \/ RetrieveGroundedFails

SpecRetry == InitRetry /\ [][NextRetry]_vars

(***************************************************************************)
(* The chunker on its own: one call of chunk_document (chunker.py).        *)
(***************************************************************************)
\* what split_sentences made of the cleaned text of a document
SentenceTexts == {"Hi.", "Good day.", "A long sentence here."}

\* estimate_tokens
EstimateTokens(text) == Len(text) \div 4

\* chunk_document: the loop over reversed(current_chunk), from sentence k down:
\* the overlap buffer, its tokens, and sent_tokens as the loop leaves it
RECURSIVE OverlapScan(_, _, _, _, _)
OverlapScan(chunk, k, limit, overlap_buffer, overlap_tokens) ==
    IF k = 0
    THEN [buffer |-> overlap_buffer, tokens |-> overlap_tokens,
          sent_tokens |-> EstimateTokens(chunk[1])]
    ELSE LET sent_tokens == EstimateTokens(chunk[k])
         IN  IF overlap_tokens + sent_tokens <= limit
             THEN OverlapScan(chunk, k - 1, limit, <<chunk[k]>> \o overlap_buffer,
                              overlap_tokens + sent_tokens)
             ELSE [buffer |-> overlap_buffer, tokens |-> overlap_tokens,
                   sent_tokens |-> sent_tokens]

\* chunk_document: the dict appended for current_chunk
ChunkDict(chunk_id, sents, tokens, pos) ==
    LET chunk_text == Join(" ", sents)
    IN  [chunk_id |-> chunk_id,
         text |-> chunk_text,
         token_count |-> tokens,
         char_range |-> <<pos - Len(chunk_text), pos>>,
         sentence_count |-> Len(sents)]

\* chunk_document is called on a document with some setting
InitChunk ==
    /\ InitPipeline
    /\ mode = "direct"
    /\ enable_structured = ENABLE_STRUCTURED_REPORTS
    /\ max_iterations = MAX_SEARCH_ITERATIONS
    /\ max_retries = DEFAULT_MAX_RETRIES
    /\ operation_name = "Search"
    /\ retry_attempt = 0
    /\ retry_pc = "idle"
    /\ invocations = 0
    /\ sleeps = <<>>
    /\ last_exception = None
    /\ retry_result = None
    /\ sentences \in UNION {[1..n -> SentenceTexts] : n \in 0..MaxSentences}
    /\ max_tokens \in 1..MaxTokens
    /\ overlap \in 0..MaxTokens
    /\ min_tokens \in 0..MaxTokens
    /\ chunks = <<>>
    /\ current_chunk = <<>>
    /\ current_tokens = 0
    /\ char_pos = 0
    /\ sent_index = 1
    /\ chunk_pc = "loop"
    /\ retrieve_result = [kind |-> "pending"]
    /\ RerankIdle

\* chunk_document: one turn of the loop over the sentences
ChunkSentence ==
    /\ chunk_pc = "loop"
    /\ sent_index <= Len(sentences)
    /\ LET sentence == sentences[sent_index]
           full == current_tokens + EstimateTokens(sentence) > max_tokens
                       /\ current_chunk # <<>>
           scan == OverlapScan(current_chunk, Len(current_chunk), overlap, <<>>, 0)
           \* the inner loop assigns sent_tokens too
           sent_tokens == IF full THEN scan.sent_tokens ELSE EstimateTokens(sentence)
       IN  /\ chunks' = IF full
                        THEN Append(chunks, ChunkDict(Len(chunks), current_chunk,
                                                      current_tokens, char_pos))
                        ELSE chunks
           /\ current_chunk' = Append(IF full THEN scan.buffer ELSE current_chunk, sentence)
           /\ current_tokens' = (IF full THEN scan.tokens ELSE current_tokens) + sent_tokens
           /\ char_pos' = char_pos + Len(sentence) + 1
    /\ sent_index' = sent_index + 1
    /\ UNCHANGED <<retryVars, cfgVars, reportVars, pc, planVars, loopVars, stateVars,
                   intermediate_log, emitted, provider_calls, exc, ready, streamVars,
                   final_report, response, sentences, max_tokens, overlap, min_tokens,
                   chunk_pc, retrieve_result, rerankVars>>

\* chunk_document: after the loop, the last chunk or the merge of the short
\* tail; without sentences the empty list
ChunkTail ==
    /\ chunk_pc = "loop"
    /\ sent_index > Len(sentences)
    /\ chunks' =
          IF current_chunk # <<>> /\ current_tokens >= min_tokens
          THEN Append(chunks, ChunkDict(Len(chunks), current_chunk, current_tokens, char_pos))
          ELSE IF current_chunk # <<>> /\ chunks # <<>>
          THEN LET last_chunk == chunks[Len(chunks)]
                   merged_text == last_chunk.text \o " " \o Join(" ", current_chunk)
               IN  [chunks EXCEPT ![Len(chunks)] =
                       [last_chunk EXCEPT
                           !.text = merged_text,
                           !.token_count = EstimateTokens(merged_text),
                           !.sentence_count = @ + Len(current_chunk),
                           !.char_range = <<@[1], char_pos>>]]
          ELSE chunks
    /\ chunk_pc' = "returned"
    /\ UNCHANGED <<retryVars, cfgVars, reportVars, pc, planVars, loopVars, stateVars,
                   intermediate_log, emitted, provider_calls, exc, ready, streamVars,
                   final_report, response, sentences, max_tokens, overlap, min_tokens,
                   current_chunk, current_tokens, char_pos, sent_index, retrieve_result,
                   rerankVars>>

NextChunk ==
    \/ ChunkSentence
    \/ ChunkTail

SpecChunk == InitChunk /\ [][NextChunk]_vars

(***************************************************************************)
(* The legacy retrieve on its own, from the chunks of the documents on     *)
(* (retriever.py).                                                         *)
(***************************************************************************)
\* the most chunks chunk_document makes of a document of the search
MaxDocChunks == 2
\* the largest top_k retrieve is called with
MaxTopK == 3
\* the urls of the documents retrieve_gemini_search returned
SearchDocs == <<"http://one", "http://two">>
\* what _score_chunk may give a chunk, in tenths
ScoreValues == {0, 5, 10}

\* chunk_document: the n chunks of the document with the url, one sentence a
\* chunk; chunk_id is len(chunks), the place in the list of this document
DocChunks(url, n) ==
    [k \in 1..n |->
        LET sentence == "Sentence " \o Str(k) \o " of " \o url \o "."
        IN  [doc_id |-> None, url |-> url]
                @@ ChunkDict(k - 1, <<sentence>>, EstimateTokens(sentence),
                             k * (Len(sentence) + 1))]

\* GeminiClient.rerank_chunks: a RerankedChunk with its score for every chunk,
\* sorted by score, highest first (list.sort is stable), cut to top_k
RerankChunks(chunk_list, scores, k_top) ==
    LET scored_chunks ==
            [k \in 1..Len(chunk_list) |->
                [chunk_id |-> chunk_list[k].chunk_id,
                 text |-> chunk_list[k].text,
                 score |-> scores[k],
                 url |-> chunk_list[k].url,
                 token_count |-> chunk_list[k].token_count]]
        place(k) ==
            1 + Cardinality({j \in 1..Len(chunk_list) :
                                \/ scores[j] > scores[k]
                                \/ scores[j] = scores[k] /\ j < k})
        sorted == [i \in 1..Len(chunk_list) |->
                      scored_chunks[CHOOSE k \in 1..Len(chunk_list) : place(k) = i]]
    IN  SubSeq(sorted, 1, IF k_top < Len(sorted) THEN k_top ELSE Len(sorted))

\* retrieve is called, the search returned its documents and they are chunked
InitRerank ==
    /\ InitPipeline
    /\ mode = "direct"
    /\ enable_structured = ENABLE_STRUCTURED_REPORTS
    /\ max_iterations = MAX_SEARCH_ITERATIONS
    /\ max_retries = DEFAULT_MAX_RETRIES
    /\ operation_name = "Search"
    /\ retry_attempt = 0
    /\ retry_pc = "idle"
    /\ invocations = 0
    /\ sleeps = <<>>
    /\ last_exception = None
    /\ retry_result = None
    /\ sentences = <<>>
    /\ max_tokens = 500
    /\ overlap = 50
    /\ min_tokens = 500
    /\ \E counts \in [DOMAIN SearchDocs -> 0..MaxDocChunks] :
          chunks = Flatten([d \in DOMAIN SearchDocs |-> DocChunks(SearchDocs[d], counts[d])])
    /\ current_chunk = <<>>
    /\ current_tokens = 0
    /\ char_pos = 0
    /\ sent_index = 1
    /\ chunk_pc = "idle"
    /\ retrieve_result = [kind |-> "pending"]
    /\ top_k \in 1..MaxTopK
    /\ reranked_chunks = <<>>
    /\ reordered = <<>>

\* retrieve: no document gave a chunk
RetrieveNoChunks ==
    /\ retrieve_result = [kind |-> "pending"]
    /\ chunks = <<>>
    /\ retrieve_result' = [kind |-> "returned", value |-> <<>>]
    /\ UNCHANGED <<retryVars, cfgVars, reportVars, pc, planVars, loopVars, stateVars,
                   intermediate_log, emitted, provider_calls, exc, ready, streamVars,
                   final_report, response, sentences, max_tokens, overlap, min_tokens,
                   chunks, current_chunk, current_tokens, char_pos, sent_index, chunk_pc,
                   rerankVars>>

\* retrieve: the chunks are reranked and each RerankedChunk is looked up in
\* chunks at its chunk_id; the format specification of the debug line that
\* follows (".3f if reordered else 0") is none of a float, the ValueError is
\* caught by the except clause of the reranking, which returns chunks[:top_k]
RetrieveRerank ==
    /\ retrieve_result = [kind |-> "pending"]
    /\ chunks # <<>>
    /\ \E scores \in [DOMAIN chunks -> ScoreValues] :
          \E ranked \in {RerankChunks(chunks, scores, top_k)} :
             /\ reranked_chunks' = ranked
             /\ reordered' =
                   LET found == SelectSeq(ranked, LAMBDA r : r.chunk_id < Len(chunks))
                   IN  [i \in DOMAIN found |->
                           [rerank_score |-> found[i].score] @@ chunks[found[i].chunk_id + 1]]
    /\ retrieve_result' =
          [kind |-> "returned",
           value |-> SubSeq(chunks, 1, IF top_k < Len(chunks) THEN top_k ELSE Len(chunks))]
    /\ UNCHANGED <<retryVars, cfgVars, reportVars, pc, planVars, loopVars, stateVars,
                   intermediate_log, emitted, provider_calls, exc, ready, streamVars,
                   final_report, response, sentences, max_tokens, overlap, min_tokens,
                   chunks, current_chunk, current_tokens, char_pos, sent_index, chunk_pc,
                   top_k>>

NextRerank ==
    \/ RetrieveNoChunks
    \/ RetrieveRerank

SpecRerank == InitRerank /\ [][NextRerank]_vars

(***************************************************************************)
(* The streaming request under fair scheduling: the worker thread gets to  *)
(* run (every provider call returns or raises), the event loop runs the    *)
(* callbacks scheduled on it, and the client keeps reading the response.   *)
(***************************************************************************)
\* run_pipeline on its thread: any step of TTD_DR_Pipeline.run
Worker ==
    \/ GenerateResearchPlan
    \/ SelfEvolveVariant
    \/ SelfEvolveCritique
    \/ SelfEvolveMerge
    \/ GenerateInitialDraft
    \/ IterationDirectQuery
    \/ IterationFormulateQuery
    \/ GenerateSearchQuery
    \/ RetrieveAndSynthesize
    \/ RetrieveFails
    \/ ReviseDraft
    \/ LoopExitLegacy
    \/ GenerateFinalReport
    \/ LoopExitStructured
    \/ GenerateReportStructure
    \/ GenerateExecutiveSummary
    \/ GenerateSection
    \/ CompressSection
    \/ GenerateConclusion
    \/ ProviderFailure

\* ENABLED <<Worker>>_vars: the run has not ended and the thread is scheduled;
\* at every position every call either returns or raises
WorkerCanStep == pc \notin {"done", "raised"} /\ WorkerRuns

\* WF_vars(Worker), with ENABLED <<Worker>>_vars written as WorkerCanStep
WorkerFairness == []<>(~WorkerCanStep) \/ []<><<Worker>>_vars

FairSpec ==
    /\ Init
    /\ [][Next]_vars
    /\ WorkerFairness
    /\ WF_vars(LoopRunsCallback)
    \* WF_vars(EventPublisher), with ENABLED <<EventPublisher>>_vars written out
    /\ ([]<>(~(publisher = "get" /\ queue # <<>>)) \/ []<><<EventPublisher>>_vars)

(***************************************************************************)
(* Properties.                                                             *)
(***************************************************************************)
\* the last element of a non-empty sequence
Last(s) == s[Len(s)]

\* the updates the conductor was handed so far, in the order they were
\* produced: those of the pipeline, then the error payload of run_pipeline
Produced ==
    emitted \o (IF mode = "stream" /\ pc = "raised" THEN <<[error |-> exc, complete |-> TRUE]>>
                ELSE <<>>)

\* the updates on their way to the client, oldest first
InFlight == queue \o ready

\* once an exception left the run, the worker does nothing more
AbortedStaysAborted ==
    pc = "raised" =>
        /\ pc' = "raised"
        /\ provider_calls' = provider_calls
        /\ emitted' = emitted
        /\ exc' = exc
        /\ UNCHANGED <<stateVars, planVars, loopVars, reportVars, intermediate_log>>

\* C1: whenever a run terminates normally (structured or legacy report, any
\* max_iterations >= 0), the sequence of events it emitted holds exactly one
\* event with complete = true, and that event is the last one; at no time is
\* an event emitted after an event with complete = true.
C1_OneCompleteEventLast ==
    /\ \A k \in 1..Len(emitted) : emitted[k].complete => k = Len(emitted)
    /\ pc = "done" => emitted # <<>> /\ Last(emitted).complete
    /\ pc # "done" => \A k \in 1..Len(emitted) : ~emitted[k].complete

\* a structured run with a search iteration ended
C1_Witness ==
    /\ pc = "done"
    /\ enable_structured
    /\ max_iterations >= 1
    /\ Len(emitted) > 3
    /\ Last(emitted).complete
    /\ Last(emitted).final_report # None

\* C2: in streaming mode the client receives the events in exactly the order
\* the pipeline produced them: the k-th event delivered is the JSON of the
\* k-th event produced, what is not yet delivered waits in production order,
\* and nothing is lost, duplicated or taken back, in every interleaving of
\* the worker, the event loop and the publisher.
C2_DeliveredInProducedOrder ==
    /\ [](mode = "stream" =>
            /\ Len(delivered) <= Len(Produced)
            /\ publisher = "get" =>
                  InFlight = SubSeq(Produced, Len(delivered) + 1, Len(Produced)))
    /\ [][/\ Len(delivered') \in {Len(delivered), Len(delivered) + 1}
          /\ SubSeq(delivered', 1, Len(delivered)) = delivered
          /\ Len(delivered') = Len(delivered) + 1 =>
                Last(delivered').data = JsonDumps(Produced'[Len(delivered')])]_vars

\* the publisher delivered events while the worker was ahead and more waited
C2_Witness ==
    /\ mode = "stream"
    /\ Len(delivered) >= 2
    /\ queue # <<>>
    /\ ready # <<>>
    /\ pc \notin {"done", "raised"}

\* C3: in streaming mode, when the worker raises at any point of the run, the
\* conductor enqueues exactly one final event, carrying the error message and
\* complete = true, after all the events produced before; the publisher
\* delivers it last and the stream ends.
C3_ErrorEventEndsStream ==
    (mode = "stream" /\ pc = "raised") =>
        /\ Len(delivered) + Len(InFlight) = Len(emitted) + 1
        /\ IF InFlight # <<>>
           THEN /\ Last(InFlight) = [error |-> exc, complete |-> TRUE]
                /\ \A k \in 1..(Len(InFlight) - 1) : "error" \notin DOMAIN InFlight[k]
                /\ publisher = "get"
           ELSE /\ publisher = "done"
                /\ Last(delivered).data = JsonDumps([error |-> exc, complete |-> TRUE])

\* the error event was delivered after events of the run and the stream ended
C3_Witness ==
    /\ mode = "stream"
    /\ pc = "raised"
    /\ publisher = "done"
    /\ Len(delivered) >= 4
    /\ Contains(Last(delivered).data, "\"error\": ")

\* C4: every streaming request eventually terminates: the publisher receives
\* an event with complete = true and stops, given that every provider call
\* returns or raises and that the consumer keeps draining.
C4_StreamTerminates ==
    (mode = "stream") ~>
        /\ publisher = "done"
        /\ delivered # <<>>
        /\ Contains(Last(delivered).data, "\"complete\": true")

\* a streaming request ended with the final report of a run
C4_Witness ==
    /\ mode = "stream"
    /\ publisher = "done"
    /\ pc = "done"
    /\ InFlight = <<>>

\* the event carries a final report that is not empty
HasFinalReport(update) ==
    /\ "final_report" \in DOMAIN update
    /\ update.final_report # None
    /\ update.final_report # ""

\* C5: an event carries a non-empty final report exactly when it has
\* complete = true and no error, in the structured and in the legacy report
\* path alike, whatever text the provider returns.
C5_FinalReportIffCompleteNoError ==
    \A k \in 1..Len(Produced) :
        HasFinalReport(Produced[k])
            <=> (Produced[k].complete /\ "error" \notin DOMAIN Produced[k])

\* the positions of the provider calls of the plan, initial draft, query
\* formulation and revision phases
AbortingPhases ==
    {"plan_variant", "plan_critique", "plan_merge", "draft", "query_gen", "revise"}

\* the provider call at one of the positions of S raised and left the run
FailedIn(S) ==
    /\ pc = "raised"
    /\ exc \in ProviderErrors
    /\ provider_calls # <<>>
    /\ Last(provider_calls) \in S

\* in streaming mode the error event is, or will be, the last one delivered
ErrorEventIsTerminal ==
    mode = "stream" =>
        IF InFlight # <<>>
        THEN Last(InFlight) = [error |-> exc, complete |-> TRUE]
        ELSE /\ publisher = "done"
             /\ Last(delivered).data = JsonDumps([error |-> exc, complete |-> TRUE])

\* C6: a provider failure in the plan, initial draft, query formulation or
\* draft revision phase aborts the run: no later phase runs and no further
\* provider call is made, no event carries a final report, and in streaming
\* mode the terminal event has complete = true and carries the error message.
C6_ProviderFailureAborts ==
    /\ [](FailedIn(AbortingPhases) =>
            /\ \A k \in 1..Len(emitted) :
                  emitted[k].final_report = None /\ ~emitted[k].complete
            /\ final_report = ""
            /\ report_structure = NoStructure
            /\ generated_sections = <<>>
            /\ ErrorEventIsTerminal)
    /\ [][AbortedStaysAborted]_vars

\* the revision call of a streaming run failed and the client has the error event
C6_Witness ==
    /\ FailedIn({"revise"})
    /\ mode = "stream"
    /\ publisher = "done"
    /\ Contains(Last(delivered).data, "\"error\": ")

\* the update generate_research_plan sends before its provider call
PlanProgressEvent ==
    [intermediate_steps |-> "Generating initial research plan...",
     final_report |-> None,
     is_intermediate |-> TRUE,
     complete |-> FALSE]

\* C7 (as the code has it): when a plan-phase provider call raises a fatal
\* error in streaming mode, exactly two events are emitted to the client: the
\* progress event "Generating initial research plan..." and then the terminal
\* error event; no provider call follows and there is no final report.
C7_PlanFailureTwoEvents ==
    /\ [](mode = "stream" /\ FailedIn({"plan_variant", "plan_critique", "plan_merge"}) =>
            /\ Produced = <<PlanProgressEvent, [error |-> exc, complete |-> TRUE]>>
            /\ Len(delivered) + Len(InFlight) = 2
            /\ publisher = "done" =>
                  delivered = <<[data |-> JsonDumps(PlanProgressEvent)],
                                [data |-> JsonDumps([error |-> exc, complete |-> TRUE])]>>
            /\ final_report = "")
    /\ [][AbortedStaysAborted]_vars

\* the plan call failed and the client was sent both events
C7_Witness ==
    /\ mode = "stream"
    /\ FailedIn({"plan_variant", "plan_critique", "plan_merge"})
    /\ publisher = "done"
    /\ Len(delivered) = 2

\* C7 (as stated): when a plan-phase provider call raises a fatal error,
\* exactly one event is emitted to the client, the terminal error event, and
\* no other event precedes it.
C7_PlanFailureSingleEvent ==
    (mode = "stream" /\ FailedIn({"plan_variant", "plan_critique", "plan_merge"})) =>
        Produced = <<[error |-> exc, complete |-> TRUE]>>

\* the placeholder answer of a failed retrieval
IsPlaceholder(answer) ==
    answer # None /\ StartsWith(answer, "Unable to retrieve web information")

\* grounded retrieval raised in some iteration of this run
RetrievalFailed ==
    \E k \in 1..Len(intermediate_log) :
        StartsWith(intermediate_log[k], "**Warning:** Unable to retrieve web information")

\* C8: when grounded retrieval raises, the iteration still revises the draft,
\* with a placeholder answer beginning "Unable to retrieve web information";
\* the citations are unchanged, the failure does not end the run, which goes
\* on to report generation, and the terminal event has complete = true with
\* a final report and no error.
C8_RetrievalFailureIsolated ==
    /\ [](/\ pc = "raised" => Last(provider_calls) # "retrieve"
          /\ (RetrievalFailed /\ pc = "done") =>
                /\ Last(emitted).complete
                /\ Last(emitted).final_report # None
                /\ enable_structured => HasFinalReport(Last(emitted))
                /\ "error" \notin DOMAIN Last(emitted)
                /\ Last(provider_calls) \in {"legacy_final", "conclusion"}
                /\ (mode = "stream" /\ publisher = "done") =>
                      Last(delivered).data = JsonDumps(Last(emitted)))
    /\ [][(pc = "retrieve" /\ pc' # "retrieve"
              /\ Len(intermediate_log') >= 2
              /\ StartsWith(intermediate_log'[Len(intermediate_log') - 1],
                            "**Warning:** Unable to retrieve web information")) =>
            /\ pc' = "revise"
            /\ IsPlaceholder(synthesized_answer')
            /\ citations' = citations
            /\ Last(intermediate_log') = "Revising draft with new information..."]_vars

\* a streaming run whose retrieval failed delivered its final report
C8_Witness ==
    /\ RetrievalFailed
    /\ pc = "done"
    /\ mode = "stream"
    /\ publisher = "done"
    /\ HasFinalReport(Last(emitted))

\* C9: after a failed retrieval the placeholder answer is still added to the
\* Q&A history: the history gains an entry with that query and the
\* placeholder answer, so that the later phases see it.
C9_PlaceholderInHistory ==
    (pc = "revise" /\ IsPlaceholder(synthesized_answer)) =>
        \E k \in 1..Len(q_a_history) :
            /\ "answer" \in DOMAIN q_a_history[k]
            /\ q_a_history[k].query = search_query
            /\ q_a_history[k].answer = synthesized_answer

\* C10: the retry wrapper invokes the wrapped function at most max_retries
\* times; when every invocation fails with a retryable error it raises after
\* the last attempt without sleeping after it; it never returns a value
\* unless an invocation succeeded.
C10_RetryBounded ==
    /\ invocations <= max_retries
    /\ retry_pc = "call" => Len(sleeps) = invocations /\ retry_attempt = invocations
    /\ retry_pc = "raised" =>
          /\ Len(sleeps) = (IF invocations = 0 THEN 0 ELSE invocations - 1)
          /\ retry_result \notin ApiResults
          /\ (last_exception # None /\ IsRetryable(last_exception)) =>
                invocations = max_retries
    /\ retry_pc = "returned" =>
          /\ retry_result \in ApiResults
          /\ invocations >= 1
          /\ Len(sleeps) = invocations - 1

\* three retryable failures with the default max_retries: raised after two sleeps
C10_Witness ==
    /\ retry_pc = "raised"
    /\ max_retries = DEFAULT_MAX_RETRIES
    /\ invocations = DEFAULT_MAX_RETRIES
    /\ IsRetryable(last_exception)
    /\ Len(sleeps) = DEFAULT_MAX_RETRIES - 1

\* the wrapper slept and is about to invoke again: last_exception is the
\* error it slept for
SleptFor(error_str) ==
    /\ retry_pc = "call"
    /\ sleeps # <<>>
    /\ last_exception = error_str

\* C11: an error that is neither rate-limit (429, RESOURCE_EXHAUSTED) nor
\* transient (timeout, 502, 503) is fatal: on whichever attempt it occurs the
\* wrapper raises right after that one invocation, without sleeping for it
\* and without another attempt.
C11_FatalErrorNotRetried ==
    /\ [](\A e \in ApiErrors :
            (last_exception = e /\ ~IsRateLimit(e) /\ ~IsTransient(e)) =>
                /\ retry_pc = "raised"
                /\ invocations = retry_attempt + 1
                /\ Len(sleeps) = retry_attempt
                /\ StartsWith(retry_result, "Gemini API " \o operation_name \o " failed: " \o e))
    /\ [][retry_pc = "raised" => UNCHANGED <<invocations, sleeps, retry_attempt>>]_vars

\* a fatal error on the second attempt, after one retry of a retryable one
C11_Witness ==
    /\ retry_pc = "raised"
    /\ last_exception = "400 Bad Request"
    /\ invocations = 2
    /\ Len(sleeps) = 1

\* C12: for a rate-limit error on a non-final attempt the wait before the
\* next attempt is (parsed + 5) seconds whenever a duration t >= 0 can be
\* parsed from "retry in <t>s" in the error text, and the 65 second default
\* only when none can be parsed.
C12_RateLimitWait ==
    \A e \in ApiErrors :
        (SleptFor(e) /\ IsRateLimit(e)) =>
            Last(sleeps) = (IF ParseRetryAfter(e) >= 0
                            THEN ParseRetryAfter(e) + 5000
                            ELSE 65000)

\* C13: for a transient error (timeout, 502, 503) on the non-final attempt
\* with 0-based index k the wait before the next attempt is the k-th entry
\* of the schedule 1 s, 2 s, 4 s; an error that matches the rate-limit
\* keywords as well is handled as a rate limit, not by the schedule.
C13_TransientSchedule ==
    \A e \in ApiErrors :
        (SleptFor(e) /\ IsTransient(e)) =>
            IF IsRateLimit(e)
            THEN Last(sleeps) \in {ParseRetryAfter(e) + 5000, 65000}
                 /\ Last(sleeps) >= 5000
            ELSE Last(sleeps) = <<1000, 2000, 4000, 4000, 4000>>[Len(sleeps)]

\* the second attempt failed with a 503 and the wrapper slept two seconds
C13_Witness ==
    /\ SleptFor("503 Service Unavailable")
    /\ sleeps = <<1000, 2000>>

\* C14: a rate-limit error the provider raises on the first plan-phase call
\* of the pipeline is retried after the rate-limit wait, so it does not end
\* the run and no error is surfaced to the client: the retry wrapper covers
\* the completion calls of the pipeline, not only the grounded-search call.
C14_PlanCallRateLimitRetried ==
    \A e \in {x \in ProviderErrors : IsRateLimit(x)} :
        /\ ~(exc = e /\ provider_calls = <<"plan_variant">>)
        /\ provider_calls = <<"plan_variant">> =>
              \A k \in 1..Len(InFlight) :
                  "error" \in DOMAIN InFlight[k] => InFlight[k].error # e

\* how many provider calls formulated a search query so far
QueryGenCalls ==
    Cardinality({k \in 1..Len(provider_calls) : provider_calls[k] = "query_gen"})

\* C15: in the first iteration of the research loop the search query is the
\* user's raw query verbatim and no provider call formulates it; in every
\* later iteration the query is what exactly one provider call returned.
C15_FirstQueryVerbatim ==
    /\ (pc \in {"retrieve", "revise"} /\ iteration = 0) =>
          search_query = query /\ QueryGenCalls = 0
    /\ (pc \in {"retrieve", "revise"} /\ iteration > 0) =>
          search_query \in QueryTexts /\ QueryGenCalls = iteration
    /\ pc = "query_gen" => iteration > 0 /\ QueryGenCalls = iteration - 1
    /\ pc = "loop" => QueryGenCalls = (IF iteration = 0 THEN 0 ELSE iteration - 1)

\* the second iteration retrieves with the query one provider call returned
C15_Witness ==
    /\ pc = "retrieve"
    /\ iteration = 1
    /\ search_query = "follow-up"
    /\ QueryGenCalls = 1
    /\ q_a_history # <<>>

\* the step in which the provider call of generate_search_query returned
QueryFormulated ==
    /\ pc = "query_gen"
    /\ pc' # "raised"
    /\ provider_calls' # provider_calls

\* C16: when the formulated search query of an iteration is empty or only
\* whitespace, the iteration retrieves nothing and revises nothing: history,
\* draft and citations stay as they are, the iteration counter advances, and
\* the loop goes on to its next test instead of ending.
C16_BlankQuerySkipsIteration ==
    /\ [][(QueryFormulated /\ Strip(search_query') = "") =>
             /\ pc' = "loop"
             /\ iteration' = iteration + 1
             /\ UNCHANGED <<plan, draft, q_a_history, citations, synthesized_answer>>
             /\ provider_calls' = Append(provider_calls, "query_gen")]_vars
    /\ [](pc \in {"retrieve", "revise"} => Strip(search_query) # "")

\* iteration 1 was skipped for a blank query and iteration 2 is retrieving
C16_Witness ==
    /\ pc = "retrieve"
    /\ iteration = 2
    /\ search_query = "follow-up"
    /\ QueryGenCalls = 2
    /\ Len(SelectSeq(q_a_history, LAMBDA item : "query" \in DOMAIN item)) = 1

\* the positions of the iterative loop's body
LoopBody == {"query_gen", "retrieve", "revise"}

\* the positions of the structured report
StructuredPhases == {"structure", "exec_summary", "section", "compress", "conclusion", "done"}

\* C17: with max_iterations = 0 the loop formulates no query, retrieves
\* nothing and revises nothing; the structured report is still generated
\* (structure, sections, assembly) with the draft being the initial draft,
\* and the run ends with a terminal event that carries the assembled report
\* unless a provider failure aborts it.
C17_ZeroIterationsSkipLoop ==
    /\ [](max_iterations = 0 =>
            /\ pc \notin LoopBody
            /\ \A k \in 1..Len(provider_calls) : provider_calls[k] \notin LoopBody
            /\ iteration = 0
            /\ search_query = None
            /\ synthesized_answer = None
            /\ citations = <<>>
            /\ \A k \in 1..Len(q_a_history) : "query" \notin DOMAIN q_a_history[k]
            /\ (enable_structured /\ pc \in StructuredPhases) => draft \in DraftTexts
            /\ (enable_structured /\ pc = "done") =>
                  /\ \E k \in 1..Len(provider_calls) : provider_calls[k] = "structure"
                  /\ \E k \in 1..Len(provider_calls) : provider_calls[k] = "section"
                  /\ Last(emitted).complete
                  /\ Last(emitted).final_report
                         = AssembleFinalReport(report_structure, generated_sections)
                  /\ HasFinalReport(Last(emitted)))
    /\ (max_iterations = 0 /\ enable_structured /\ pc = "loop") ~> (pc \in {"done", "raised"})

\* a structured run without iterations has sent its report
C17_Witness ==
    /\ max_iterations = 0
    /\ enable_structured
    /\ pc = "done"
    /\ draft = "draft zero"
    /\ Len(generated_sections) > 2
    /\ HasFinalReport(Last(emitted))

\* C18: every history entry that has a query field has an answer field that
\* is not empty, whatever text the provider returned for the retrieval.
C18_QueryEntriesHaveAnswer ==
    \A k \in 1..Len(q_a_history) :
        "query" \in DOMAIN q_a_history[k] =>
            /\ "answer" \in DOMAIN q_a_history[k]
            /\ q_a_history[k].answer # ""

\* the history entries that revisions of the draft appended
RevisedEntries ==
    SelectSeq(q_a_history, LAMBDA item : StartsWith(item.description, "**Revised Draft "))

\* the positions before the plan is written
PlanPhase == {"idle", "start", "plan_variant", "plan_critique", "plan_merge"}

\* C19: the plan is written once, by the plan phase, and no later step
\* changes it; the draft changes only when the initial draft is generated and
\* when a revision returns, and once a revision has returned the draft is what
\* the most recent revision call returned.
C19_PlanOnceDraftLatestRevision ==
    /\ [][/\ plan' # plan =>
                pc = "plan_merge" /\ pc' = "draft" /\ plan = "" /\ plan' \in MergeTexts
          /\ pc \notin PlanPhase => pc' \notin PlanPhase
          /\ draft' # draft =>
                \/ pc = "draft" /\ pc' = "loop" /\ draft' \in DraftTexts
                \/ pc = "revise" /\ pc' = "loop" /\ draft' \in RevisionTexts
          /\ (pc = "revise" /\ pc' = "loop") =>
                /\ draft' \in RevisionTexts
                /\ Last(q_a_history').description
                       = "**Revised Draft " \o Str(iteration + 1) \o ":**\n"
                             \o Prefix(draft', 200) \o "..."]_vars
    /\ []((pc \notin PlanPhase /\ pc # "raised") => plan \in MergeTexts)
    /\ [](RevisedEntries # <<>> =>
            \E n \in 1..max_iterations :
                Last(RevisedEntries).description
                    = "**Revised Draft " \o Str(n) \o ":**\n" \o Prefix(draft, 200) \o "...")

\* two revisions returned different texts and the draft is the later one
C19_Witness ==
    /\ Len(RevisedEntries) = 2
    /\ RevisedEntries[1].description = "**Revised Draft 1:**\ndraft revised again..."
    /\ draft = "draft revised"
    /\ plan = "1. scope 2. sources"
    /\ pc = "loop"

\* the step in which one attempt at the current section was made
SectionAttempted == pc = "section" /\ provider_calls' # provider_calls

\* the warning _generate_section_with_validation sends for the current section
QualityWarning ==
    "(!) " \o "Section " \o Str(current_section) \o "/"
        \o Str(MainSections(report_structure.chapters))
        \o ": Quality issues detected but proceeding (max attempts reached)"

C21_SecondAttemptGetsGuidance ==
    [][(SectionAttempted /\ attempt = 2) =>
          /\ StartsWith(regeneration_guidance, "Address the following issues in regeneration:\n- ")
          /\ prompt_guidance'
                 = report_structure.chapters[chapter_number].sections[section_number].guidance
                       \o "\n\nREGENERATION GUIDANCE:\n" \o regeneration_guidance]_vars

\* the section spec the section loop is at
CurrentSpec == report_structure.chapters[chapter_number].sections[section_number]

\* C22: when the provider call of generate_section fails, a placeholder
\* section with the error in it is returned instead of an exception; its
\* validation gives coherence 0 and is_valid false, so that a first attempt is
\* followed by a regeneration attempt, and the run is not aborted.
C22_SectionFailureRegenerates ==
    /\ [](pc = "section" =>
            \A e \in SectionErrors :
                LET placeholder == SectionFallback(CurrentSpec, e)
                    validation_result == ValidateSection(placeholder, generated_sections, 1)
                IN  /\ Contains(placeholder.content, e)
                    /\ validation_result.coherence_score = 0
                    /\ ~validation_result.is_valid
                    /\ ShouldRegenerate(validation_result, 1, 2).regen)
    /\ [][SectionAttempted =>
            /\ pc' \in {"section", "compress"}
            /\ exc' = None
            /\ (attempt = 1 /\ pc' = "compress") => CheckCoherence(section') # 0]_vars

\* the first attempt at a section returned the placeholder and the second is due
C22_Witness ==
    /\ pc = "section"
    /\ attempt = 2
    /\ exc = None
    /\ regeneration_guidance
           = GetRegenerationGuidance(
                 ValidateSection(SectionFallback(CurrentSpec, "503 Service Unavailable"),
                                 generated_sections, 1))

\* validate_section reported the issue of too few citations for the section
\* that waits to be compressed
CitationIssueReported ==
    LET issues == ValidateSection(section, generated_sections, attempt).issues
    IN  \E k \in 1..Len(issues) : StartsWith(issues[k], "Insufficient citations:")

\* C23: validate_section reports too few citations exactly when the section
\* has fewer than one citation per 150 words: with c citations and w words,
\* if and only if c * 150 < w, a section without words counting as too few.
C23_CitationIssueBelowOnePer150 ==
    pc = "compress" =>
        (CitationIssueReported <=>
            \/ section.word_count = 0
            \/ Len(section.citations_used) * 150 < section.word_count)

\* C24: whatever the document and the setting of max_tokens, overlap and
\* min_tokens, every chunk chunk_document returns has token_count <= max_tokens,
\* the chunk of one long sentence and the last chunk after the merge of a
\* short tail included.
C24_ChunksWithinMaxTokens ==
    chunk_pc = "returned" =>
        \A k \in 1..Len(chunks) : chunks[k].token_count <= max_tokens

\* the citations the "- [...]" lines of a citations section list
ListedCitations(citations_section) ==
    LET lines == Split(citations_section, "\n")
    IN  {Sub(lines[k], 4, Len(lines[k]) - 1) :
            k \in {j \in 1..Len(lines) : StartsWith(lines[j], "- [")}}

\* the citations the generated sections used
UsedCitations ==
    UNION {{generated_sections[k].citations_used[j] :
               j \in 1..Len(generated_sections[k].citations_used)} :
           k \in 1..Len(generated_sections)}

C25_WitnessNone ==
    /\ pc = "done"
    /\ UsedCitations = {}
    /\ Contains(Last(emitted).final_report, "No citations available for this report.")

\* C26: the structure generate_chapter_outline returns, from the model's JSON
\* or from the fallback, has 2 to 7 chapters, each of 3 to 5 sections.
C26_StructureShape ==
    report_structure # NoStructure =>
        /\ Len(report_structure.chapters) \in 2..7
        /\ \A c \in 1..Len(report_structure.chapters) :
              Len(report_structure.chapters[c].sections) \in 3..5

\* C28: a critique response without the "REVISED_TEXT:" sentinel makes
\* self_evolve keep the original variant for the round and go on to the merge:
\* no exception leaves it, and every round has num_variants variants.
C28_UnparsedCritiqueKeepsVariant ==
    /\ exc # "list index out of range"
    /\ pc \in {"plan_critique", "plan_merge"} => Len(variants) = NUM_VARIANTS

\* C27: both retriever operations pass an irrecoverable provider failure on to
\* their caller: once the wrapped call has raised, the legacy retrieve raises
\* too instead of returning a list, as retrieve_with_grounded_generation does.
C27_RetrieversPropagateFailure ==
    (retry_pc = "raised" /\ retrieve_result.kind # "pending") =>
        /\ retrieve_result.kind = "raised"
        /\ retrieve_result.value = retry_result

\* C30: after the client of a streaming request has disconnected, the worker
\* completes at most the provider call that was in flight: it makes at most
\* one provider call more than it had made at the disconnect, and the events
\* it emits are those of that one step at most.
C30_DisconnectStopsWorker ==
    cancelled_at # <<>> =>
        /\ Len(provider_calls) <= cancelled_at[1] + 1
        /\ Len(provider_calls) = cancelled_at[1] => Len(emitted) = cancelled_at[2]

\* the intermediate_steps text of the event before the k-th, None before the first
PrevSteps(k) == IF k = 1 THEN None ELSE emitted[k - 1].intermediate_steps

\* the text _send_update makes of a log that had the given text and got one entry more
Extended(steps_text, entry) ==
    IF steps_text = None THEN entry ELSE steps_text \o "|||---|||" \o entry

\* how many log entries the first k events carry: one more for every event
\* whose text is not that of the event before it
EntriesIn ==
    LET cnt[k \in 0..Len(emitted)] ==
            IF k = 0 THEN 0
            ELSE cnt[k - 1] + (IF emitted[k].intermediate_steps = PrevSteps(k) THEN 0 ELSE 1)
    IN  cnt

\* C31: every _send_update emits one event and the log only grows: the text of
\* each event is the text of the event before it, or that text extended by the
\* next entry of the log joined with "|||---|||"; the last event carries the
\* whole log; no step removes or reorders entries or events, and a step appends
\* to the log no more entries than it emits events.
C31_LogGrowsOneEntryPerEvent ==
    /\ [](\E cnt \in {EntriesIn} :
            /\ \A k \in 1..Len(emitted) :
                  \/ emitted[k].intermediate_steps = PrevSteps(k)
                  \/ /\ cnt[k] <= Len(intermediate_log)
                     /\ emitted[k].intermediate_steps
                            = Extended(PrevSteps(k), intermediate_log[cnt[k]])
            /\ cnt[Len(emitted)] = Len(intermediate_log))
    /\ [][/\ Len(intermediate_log') >= Len(intermediate_log)
          /\ SubSeq(intermediate_log', 1, Len(intermediate_log)) = intermediate_log
          /\ SubSeq(emitted', 1, Len(emitted)) = emitted
          /\ Len(intermediate_log') - Len(intermediate_log)
                <= Len(emitted') - Len(emitted)]_vars

\* a run ended: every event added its entry, and the last event carries the
\* log from its first entry on
C31_Witness ==
    /\ pc = "done"
    /\ Len(intermediate_log) >= 4
    /\ Len(emitted) = Len(intermediate_log)
    /\ StartsWith(Last(emitted).intermediate_steps,
                  "Generating initial research plan...|||---|||")
    /\ Last(emitted).intermediate_steps # PrevSteps(Len(emitted))

\* C32: in static mode the pipeline runs to its end before anything is
\* returned; the value returned is the final report of the run's terminal
\* (complete) event; when the pipeline raised, no report is returned and the
\* caller gets the failure (HTTP 500).
C32_StaticReturnsTerminalReport ==
    (mode = "static" /\ response # None) =>
        /\ pc \in {"done", "raised"}
        /\ pc = "done" =>
              /\ Last(emitted).complete
              /\ response = Last(emitted).final_report
              /\ response = final_report
        /\ pc = "raised" => response = "HTTP 500: Static evaluation failed"

\* a static run returned the report it assembled
C32_Witness ==
    /\ mode = "static"
    /\ pc = "done"
    /\ response # None
    /\ StartsWith(response, "# ")
    /\ Len(emitted) > 3

\* the sections generate_section may return for the current section spec
SectionCandidates ==
    {Generated(CurrentSpec, content) : content \in SectionTexts(GetFullId(CurrentSpec))}
        \cup {SectionFallback(CurrentSpec, e) : e \in SectionErrors}

\* the four checks of a section against the sections before it, as the
\* specification words them
AllChecksPass(sec, previous_sections) ==
    /\ sec.word_count >= 300
    /\ ~CitationDensityLow(sec)
    /\ \A k \in 1..Len(previous_sections) :
          LET mine == Words(Lower(sec.content))
              theirs == Words(Lower(previous_sections[k].content))
          IN  100 * Cardinality(mine \cap theirs) <= 70 * Cardinality(mine \cup theirs)
    /\ \A indicator \in {"generation failed", "error:", "[content generation failed",
                         "not implemented", "placeholder"} :
          ~Contains(Lower(sec.content), indicator)
    /\ Contains(sec.content, "\n")
    /\ Contains(sec.content, ". ") \/ Contains(sec.content, ".\n")

\* C33: validate_section says is_valid exactly when its issue list is empty,
\* and this is exactly when the four checks pass: 300 words or more, the
\* citation check, a Jaccard word overlap of at most 0.70 with every previous
\* section, and a content without placeholder indicator that has a paragraph
\* break and a sentence break; a coherence score of 0 or 0.5 makes it invalid.
C33_ValidIffAllChecksPass ==
    pc = "section" =>
        \A sec \in SectionCandidates :
            \E v \in {ValidateSection(sec, generated_sections, attempt)} :
                /\ v.is_valid <=> v.issues = <<>>
                /\ v.is_valid <=> AllChecksPass(sec, generated_sections)
                /\ v.coherence_score \in {0, 5} => ~v.is_valid

\* a first attempt was rejected for its overlap with an earlier section alone
C33_Witness ==
    /\ pc = "section"
    /\ attempt = 2
    /\ Contains(regeneration_guidance, "High redundancy: 100% similarity")
    /\ ~Contains(regeneration_guidance, "Insufficient")
    /\ ~Contains(regeneration_guidance, "Poor coherence")

\* the section specs of the report structure in generation order
AllSpecs ==
    <<report_structure.executive_summary>>
        \o Flatten([c \in 1..Len(report_structure.chapters) |->
                        report_structure.chapters[c].sections])
        \o <<report_structure.conclusion>>

\* C34: in every report structure the generator produced, the executive
\* summary has id "0.1", the chapters are numbered 1..n in order and their
\* sections from 1, the conclusion has chapter number n + 1, the ids of all
\* sections are pairwise distinct, and estimated_sections is 2 plus the number
\* of chapter sections.
C34_StructureNumbering ==
    report_structure # NoStructure =>
        /\ GetFullId(report_structure.executive_summary) = "0.1"
        /\ \A c \in 1..Len(report_structure.chapters) :
              /\ report_structure.chapters[c].chapter_number = c
              /\ \A k \in 1..Len(report_structure.chapters[c].sections) :
                    /\ report_structure.chapters[c].sections[k].chapter_number = c
                    /\ report_structure.chapters[c].sections[k].section_number = k
                    /\ GetFullId(report_structure.chapters[c].sections[k])
                           = Str(c) \o "." \o Str(k)
        /\ report_structure.conclusion.chapter_number = Len(report_structure.chapters) + 1
        /\ \A i, j \in 1..Len(AllSpecs) :
              GetFullId(AllSpecs[i]) = GetFullId(AllSpecs[j]) => i = j
        /\ report_structure.estimated_sections = Len(AllSpecs)
        /\ Len(AllSpecs) = 2 + MainSections(report_structure.chapters)

\* the default structure is being written: three chapters, eight sections
C34_Witness ==
    /\ pc = "section"
    /\ Len(report_structure.chapters) = 3
    /\ Len(AllSpecs) = 8
    /\ chapter_number = 2
    /\ section_number = 2

\* C35: a structure response that cannot be turned into a report structure
\* (no JSON, a key missing, JSON of the wrong shape) never makes
\* generate_chapter_outline raise: the only exception that leaves the
\* structure step is a failure of the provider call itself, and every other
\* response ends in a report structure.
C35_UnparsedStructureFallsBack ==
    (pc = "raised" /\ provider_calls # <<>> /\ Last(provider_calls) = "structure") =>
        exc \in ProviderErrors

\* C36: the chunks chunk_document returns for a document with sentences hold
\* all of them: no sentence is lost, also when the whole document or its tail
\* has fewer than min_tokens tokens.
C36_NoSentenceLost ==
    chunk_pc = "returned" =>
        \A i \in 1..Len(sentences) :
            \E k \in 1..Len(chunks) : Contains(chunks[k].text, sentences[i])

\* the heading build_generation_context gives the entry of a section
EntryHead(sec) == "[" \o GetFullId(sec.spec) \o "] " \o sec.spec.title

\* C37: the context built for the next section has one entry per section
\* generated so far, in generation order: each of the 5 most recent sections
\* with its full content, every older section with its summary, compressed on
\* demand when the section has none.
C37_ContextOneEntryPerSection ==
    [][SectionAttempted =>
          /\ Len(previous_sections_text') = Len(generated_sections)
          /\ \A k \in 1..Len(generated_sections) :
                LET sec == generated_sections[k]
                IN  IF k > Len(generated_sections) - 5
                    THEN previous_sections_text'[k]
                             = EntryHead(sec) \o " (Full):\n" \o sec.content
                    ELSE \E summary \in (IF sec.summary # "" THEN {sec.summary}
                                         ELSE SummaryTexts \cup {TruncatedSummary(sec)}) :
                            previous_sections_text'[k] = EntryHead(sec) \o ": " \o summary]_vars

\* the context of the sixth chapter section: the executive summary as a
\* summary compressed on demand, the five chapter sections before it in full
C37_Witness ==
    /\ Len(previous_sections_text) = 6
    /\ previous_sections_text[1] = "[0.1] Executive Summary: short summary"
    /\ \A k \in 2..6 : Contains(previous_sections_text[k], " (Full):\n")
    /\ StartsWith(previous_sections_text[6], "[3.1] Expected Developments (Full):\n")

\* how many provider calls of the given name are among the first k
CallsAmong(name, k) ==
    Cardinality({i \in 1..k : provider_calls[i] = name})

\* the URLs of the updates sent by the retrievals, in the order sent
RetrievedUrls ==
    LET urls[k \in 0..Len(emitted)] ==
            IF k = 0 THEN <<>>
            ELSE urls[k - 1] \o (IF /\ "citations" \in DOMAIN emitted[k]
                                    /\ emitted[k].is_intermediate
                                 THEN emitted[k].citations
                                 ELSE <<>>)
    IN  urls[Len(emitted)]

\* every iteration so far went on to the retrieval and none of them failed
AllIterationsRetrieved ==
    /\ Cardinality({i \in DOMAIN intermediate_log :
           intermediate_log[i]
               = "Searching web and synthesizing answer with Gemini grounded generation..."})
         = iteration
    /\ \A i \in DOMAIN intermediate_log :
           ~StartsWith(intermediate_log[i], "**Warning:** Unable to retrieve")

\* C38: between iterations of the research loop, if each of the K iterations
\* so far had a non-empty query and a grounded retrieval that succeeded, then
\* K retrievals and K revisions were called, each revision right after the
\* retrieval of its iteration, the Q&A history has K entries with a query, and
\* citations is the concatenation, in order and with repetitions, of the URLs
\* the retrievals returned.
C38_LoopCountsAndCitations ==
    (pc = "loop" /\ AllIterationsRetrieved) =>
        /\ CallsAmong("retrieve", Len(provider_calls)) = iteration
        /\ CallsAmong("revise", Len(provider_calls)) = iteration
        /\ \A i \in DOMAIN provider_calls :
              /\ provider_calls[i] = "retrieve"
                    => CallsAmong("retrieve", i) = CallsAmong("revise", i) + 1
              /\ provider_calls[i] = "revise"
                    => /\ CallsAmong("retrieve", i) = CallsAmong("revise", i)
                       /\ i > 1 /\ provider_calls[i - 1] = "retrieve"
        /\ Cardinality({i \in DOMAIN q_a_history : "query" \in DOMAIN q_a_history[i]}) = iteration
        /\ citations = RetrievedUrls

\* C38 witness: two iterations are over, both retrieved, and the same two URLs
\* came back twice
C38_Witness ==
    /\ pc = "loop"
    /\ iteration = 2
    /\ AllIterationsRetrieved
    /\ citations = <<"http://a", "http://b", "http://a", "http://b">>
    /\ CallsAmong("revise", Len(provider_calls)) = 2

\* the step in which the first attempt at the current section was rejected
FirstAttemptRejected == SectionAttempted /\ attempt = 1 /\ attempt' = 2

\* C39: in the structured path the generated sections are, at every moment,
\* the sections of the first specs of the structure in the order executive
\* summary, chapter sections, conclusion, one section a spec, and all of them
\* when the report is assembled; a chapter section is appended as it was
\* accepted, with its summary; the step that rejects a first attempt leaves
\* the generated sections and the report as they were, and the second attempt
\* gets the context the first one got, entry for entry.
C39_OneSectionPerSpec ==
    /\ [](generated_sections # <<>> =>
            /\ Len(generated_sections) <= Len(AllSpecs)
            /\ \A k \in DOMAIN generated_sections : generated_sections[k].spec = AllSpecs[k]
            /\ (pc = "done" => Len(generated_sections) = Len(AllSpecs)))
    /\ [][/\ generated_sections' # generated_sections =>
               /\ Len(generated_sections') = Len(generated_sections) + 1
               /\ SubSeq(generated_sections', 1, Len(generated_sections)) = generated_sections
               /\ pc = "compress" =>
                     Last(generated_sections')
                         = [section EXCEPT !.summary = Last(generated_sections').summary]
          /\ FirstAttemptRejected =>
               /\ UNCHANGED <<generated_sections, section, final_report>>
               /\ Len(previous_sections_text') = Len(generated_sections)
          /\ (SectionAttempted /\ attempt = 2) =>
               /\ Len(previous_sections_text') = Len(previous_sections_text)
               /\ \A k \in DOMAIN previous_sections_text :
                     StartsWith(previous_sections_text'[k], EntryHead(generated_sections[k]))]_vars

\* C39 witness: a report was assembled from the sections of all the specs
\* after the first attempt at a section, too short, was rejected; the text of
\* that attempt is in no section and not in the report
C39_Witness ==
    /\ pc = "done"
    /\ generated_sections # <<>>
    /\ Len(generated_sections) = Len(AllSpecs)
    /\ \E i \in DOMAIN intermediate_log :
           Contains(intermediate_log[i], ": Regenerating (attempt 2/2)...")
    /\ \A k \in DOMAIN generated_sections :
           ~Contains(generated_sections[k].content, "Too short.")
    /\ ~Contains(final_report, "Too short.")

\* C40: the chunks retrieve returns after a reranking are at most top_k, each
\* carries a rerank score, and that score is the one rerank_chunks computed
\* for the chunk with this text and url, also when chunks of different
\* documents have the same chunk_id; the scores do not increase along the list.
C40_ReturnedChunksCarryTheirScore ==
    (retrieve_result.kind = "returned" /\ reranked_chunks # <<>>) =>
        \E value \in {retrieve_result.value} :
            /\ Len(value) <= top_k
            /\ \A i \in DOMAIN value :
                  /\ "rerank_score" \in DOMAIN value[i]
                  /\ \E j \in DOMAIN reranked_chunks :
                        /\ reranked_chunks[j].text = value[i].text
                        /\ reranked_chunks[j].url = value[i].url
                        /\ reranked_chunks[j].score = value[i].rerank_score
            /\ \A i \in 1..(Len(value) - 1) :
                  value[i].rerank_score >= value[i + 1].rerank_score

====
